---- MODULE Spec2Model ----
(***************************************************************************)
(* fastapi-tui: the event pipeline from the capture middleware (producer)  *)
(* over the IPC queue to the dispatcher of the monitor (consumer), the     *)
(* session-scoped SQLite store and the per-endpoint statistics.            *)
(*                                                                         *)
(* The specifications share the variables:                                 *)
(*   Spec         producer middleware + queue + dispatcher + store         *)
(*   SpecLive     Spec with the handler of every request weakly fair       *)
(*   SpecStore    the persistence API called in any order                  *)
(*   SpecStats    one EndpointStats fed a long stream of durations         *)
(*   SpecConfig   the configuration payload written and read back          *)
(*   SpecDispatch process_events draining a queue with two enqueuers       *)
(*   SpecService  the service process: bootstrap, capture, runtime logs    *)
(*   SpecContext  two requests interleaved on one worker, their contexts   *)
(*   SpecCapture  one call of capture_exception                            *)
(*   SpecSchema   the store opened on a database file of any layout        *)
(*   SpecRunner   the supervisor, its subprocess and the output reader     *)
(*   SpecRunnerLive  SpecRunner with the reader and _cleanup scheduled     *)
(*   SpecMount    the monitor's start-up: on_mount and the configuration   *)
(*   SpecViewer   one RequestViewer handed more hits than it holds         *)
(*                                                                         *)
(* Python's None is the empty tuple, a present value v is <<v>>.           *)
(* Durations are milliseconds as naturals; averages are exact rationals.   *)
(***************************************************************************)
EXTENDS Integers, Sequences, FiniteSets, TLC

\* ------------------------------------------------------------------ bounds
\* Requests the producer serves in one run of Spec.
MaxRequests == 2
\* Store calls in one run of SpecStore.
MaxStoreOps == 4
\* Sessions SpecStore may start after the one started by the constructor.
MaxSessions == 2
\* Durations fed beyond the window capacity in SpecStats.
FeedExtra == 2
\* Freely chosen durations at the start of the stream in SpecStats.
FreeFeeds == 1
\* Events put on the queue in one run of SpecDispatch.
MaxEvents == 3
\* Frames of the traceback handed to capture_exception in SpecCapture.
MaxFrames == 3
\* add_runtime_log calls of one request in SpecService.
MaxLogs == 2
\* Lines the subprocess writes to its output in one run of SpecRunner.
MaxLines == 2
\* SIGTERM signals delivered to the supervisor in one run of SpecRunner.
MaxSignals == 1
\* Hits inserted beyond the capacity of the viewer in SpecViewer.
ViewerExtra == 2
\* Insertions at the start of SpecViewer after which hits may be updated.
ViewerFree == 1

\* ------------------------------------------------------- program constants
\* EndpointStats.update keeps the last 1000 durations.
MaxDurations == 1000
\* RequestViewer.add_hit keeps the newest 100 hits.
MaxHits == 100
\* get_recent_hits default limit.
HitsLimit == 100
\* get_recent_logs default limit.
LogsLimit == 1000
\* The maxsize of the manager's Queue(); 0 stands for "no limit".
QueueMaxsize == 0
\* _extract_locals: local variables kept per frame.
MaxVars == 10

None == <<>>
Some(v) == <<v>>

\* Python truthiness of an Optional[int]: None and 0 are falsy.
Truthy(o) == o # None /\ o[1] # 0

\* `a or b` on Optional values.
OrElse(a, b) == IF Truthy(a) THEN a ELSE b

\* dict.get(k) : None when the key is absent.
Get(d, k) == IF k \in DOMAIN d THEN d[k] ELSE None

\* dict.get(k) used as a condition on a bool-valued key.
GetBool(d, k) == k \in DOMAIN d /\ d[k] = TRUE

\* dict.get("runtime_logs", []).
GetList(d, k) == IF k \in DOMAIN d THEN d[k] ELSE <<>>

\* str.lower() on the key names the model uses.
Lower(k) ==
    CASE k = "Password" -> "password"
      [] k = "Authorization" -> "authorization"
      [] k = "X-Api-Key" -> "x-api-key"
      [] OTHER -> k

\* str.upper() on the method names the model uses.
Upper(m) ==
    CASE m = "get" -> "GET"
      [] m = "post" -> "POST"
      [] m = "options" -> "OPTIONS"
      [] OTHER -> m

\* ------------------------------------------------------------ configuration
MaskSentinel == "***"

\* The configuration value both processes run with (main.py builds one with
\* exclude_paths; the mask sets are the dataclass defaults).
Config ==
    [ enable_request_logging |-> TRUE,
      enable_runtime_logs |-> TRUE,
      enable_persistence |-> TRUE,
      exclude_paths |-> {"/health"},
      exclude_methods |-> {"OPTIONS"},
      mask_headers |-> {"authorization", "x-api-key", "cookie", "set-cookie"},
      mask_body_fields |-> {"password", "secret", "token", "api_key", "apikey",
                            "access_token", "refresh_token"} ]

\* TUIConfig.should_log_request
should_log_request(cfg, path, method) ==
    IF ~cfg.enable_request_logging THEN FALSE
    ELSE IF path \in cfg.exclude_paths THEN FALSE
    ELSE IF Upper(method) \in cfg.exclude_methods THEN FALSE
    ELSE TRUE

\* TUIConfig.scrub_headers
scrub_headers(cfg, headers) ==
    [k \in DOMAIN headers |->
        IF Lower(k) \in cfg.mask_headers THEN MaskSentinel ELSE headers[k]]

\* TUIConfig.scrub_data on a flat dict of strings.
scrub_data(cfg, data) ==
    [k \in DOMAIN data |->
        IF Lower(k) \in cfg.mask_body_fields THEN MaskSentinel ELSE data[k]]

\* ------------------------------------------------- configuration payload
\* Python containers, told apart by their type: {"a"} is a set, {} is a dict,
\* ["a"] is a list (JSON array).
PySet(S) == [kind |-> "set", items |-> S]

EmptyDict == [kind |-> "dict", items |-> {}]

PyList(items) == [kind |-> "list", items |-> items]

\* A member of the enum LogLevel.
LogLevel(value) == [kind |-> "LogLevel", value |-> value]

LogLevelValues == {"debug", "info", "warning", "error", "critical"}

\* TUIConfig(): the fields the payload methods convert, and two of the fields
\* they pass through. exclude_paths defaults to `{}`, an empty dict.
DefaultConfig ==
    [ enable_request_logging |-> TRUE,
      enable_persistence |-> TRUE,
      log_level |-> LogLevel("info"),
      exclude_paths |-> EmptyDict,
      exclude_methods |-> PySet({}),
      mask_headers |-> PySet({"authorization", "x-api-key", "cookie", "set-cookie"}),
      mask_body_fields |-> PySet({"password", "secret", "token", "api_key", "apikey",
                                  "access_token", "refresh_token"}) ]

\* The elements of a finite set, each once, in one order.
RECURSIVE SetToSeq(_)
SetToSeq(S) ==
    IF S = {} THEN << >>
    ELSE LET x == CHOOSE x \in S : TRUE IN <<x>> \o SetToSeq(S \ {x})

\* list(container): the elements each once, in an order the process's hash
\* seed decides; the orders explored are the rotations of one order.
ListsOf(container) ==
    LET one == SetToSeq(container.items)
        n == Len(one)
    IN {PyList([i \in 1..n |-> one[((i + k) % n) + 1]]) : k \in 0..(IF n = 0 THEN 0 ELSE n - 1)}

\* set(list)
SetOfList(list) == PySet({list.items[i] : i \in DOMAIN list.items})

\* TUIConfig.to_json_payload followed by json.loads: the JSON objects the
\* payload may decode to (the order of list(set) is not fixed).
to_json_payload(c) ==
    { [ enable_request_logging |-> c.enable_request_logging,
        enable_persistence |-> c.enable_persistence,
        log_level |-> c.log_level.value,
        exclude_paths |-> paths,
        exclude_methods |-> methods,
        mask_headers |-> headers,
        mask_body_fields |-> fields ] :
      paths \in ListsOf(c.exclude_paths), methods \in ListsOf(c.exclude_methods),
      headers \in ListsOf(c.mask_headers), fields \in ListsOf(c.mask_body_fields) }

\* TUIConfig.from_json_payload on the decoded JSON object.
from_json_payload(data) ==
    [ enable_request_logging |-> data.enable_request_logging,
      enable_persistence |-> data.enable_persistence,
      log_level |-> LogLevel(data.log_level),
      exclude_paths |-> SetOfList(data.exclude_paths),
      exclude_methods |-> SetOfList(data.exclude_methods),
      mask_headers |-> SetOfList(data.mask_headers),
      mask_body_fields |-> SetOfList(data.mask_body_fields) ]

\* ------------------------------------------------------------ EndpointStats
RECURSIVE Gcd(_, _)
Gcd(a, b) == IF b = 0 THEN a ELSE Gcd(b, a % b)

\* A non-negative rational in lowest terms.
Rat(n, d) == LET g == Gcd(n, d) IN [num |-> n \div g, den |-> d \div g]

RatZero == [num |-> 0, den |-> 1]

\* sorted(self.durations)
SortedDurations(ds) == SortSeq(ds, LAMBDA a, b : a < b)

\* A variant of PercentileIndex that ranks the quantiles in reverse.
PercentileIndexReversed(n, q) == (n * (149 - q)) \div 100

\* int(n * q / 100) for q in {50, 95, 99}: the float product truncates to this
\* integer for every n up to the window capacity.
PercentileIndex(n, q) == (n * q) \div 100

\* EndpointStats(endpoint=...)
NewStats ==
    [ total_hits |-> 0, success_count |-> 0, error_count |-> 0,
      avg_duration_ms |-> RatZero, min_duration_ms |-> None,
      max_duration_ms |-> None, last_hit |-> None,
      status_codes |-> << >>, durations |-> << >>,
      p50 |-> 0, p95 |-> 0, p99 |-> 0 ]

\* status_codes[code] = status_codes.get(code, 0) + 1
CountStatus(codes, code) ==
    [c \in DOMAIN codes \cup {code} |->
        IF c = code THEN (IF c \in DOMAIN codes THEN codes[c] ELSE 0) + 1
        ELSE codes[c]]

\* A variant of PushDuration that refuses the newest duration once full.
PushDurationKeepOldest(ds, d) ==
    IF Len(ds) >= MaxDurations THEN ds ELSE Append(ds, d)

\* durations.append(d); if len(durations) > 1000: durations.pop(0)
PushDuration(ds, d) ==
    LET appended == Append(ds, d)
    IN IF Len(appended) > MaxDurations THEN Tail(appended) ELSE appended

\* the running average of EndpointStats.update
NextAverage(avg, total_hits, d) ==
    IF avg.num = 0 THEN Rat(d, 1)
    ELSE Rat(avg.num * (total_hits - 1) + d * avg.den, avg.den * total_hits)

\* sorted_durations[int(n * q)] (Python indexes from 0)
Percentile(sorted, q) == sorted[PercentileIndex(Len(sorted), q) + 1]

\* EndpointStats.update(hit, count_hit)
StatsUpdate(st, hit, count_hit) ==
    LET total == IF count_hit THEN st.total_hits + 1 ELSE st.total_hits
        classified == Truthy(hit.status_code)
        code == hit.status_code[1]
        timed == hit.duration_ms # None
        d == hit.duration_ms[1]
        ds == IF timed THEN PushDuration(st.durations, d) ELSE st.durations
        sorted == SortedDurations(ds)
    IN [ total_hits |-> total,
         last_hit |-> Some(hit.timestamp),
         success_count |->
            IF classified /\ code < 400 THEN st.success_count + 1
            ELSE st.success_count,
         error_count |->
            IF classified /\ ~(code < 400) THEN st.error_count + 1
            ELSE st.error_count,
         status_codes |->
            IF classified THEN CountStatus(st.status_codes, code)
            ELSE st.status_codes,
         durations |-> ds,
         avg_duration_ms |->
            IF timed THEN NextAverage(st.avg_duration_ms, total, d)
            ELSE st.avg_duration_ms,
         min_duration_ms |->
            IF timed /\ (st.min_duration_ms = None \/ d < st.min_duration_ms[1])
            THEN Some(d) ELSE st.min_duration_ms,
         max_duration_ms |->
            IF timed /\ (st.max_duration_ms = None \/ d > st.max_duration_ms[1])
            THEN Some(d) ELSE st.max_duration_ms,
         p50 |-> IF timed /\ ds # << >> THEN Percentile(sorted, 50) ELSE st.p50,
         p95 |-> IF timed /\ ds # << >> THEN Percentile(sorted, 95) ELSE st.p95,
         p99 |-> IF timed /\ ds # << >> THEN Percentile(sorted, 99) ELSE st.p99 ]

\* ------------------------------------------------------------------- store
\* str(datetime): what json.dumps(..., default=str) makes of a timestamp.
TimeText(t) == <<"datetime", t>>

\* json.dumps(hit_data, default=str) followed by json.loads: the dict that
\* get_recent_hits hands back for a stored hit.
JsonRoundTrip(hit_data) ==
    IF "timestamp" \in DOMAIN hit_data
    THEN [hit_data EXCEPT !.timestamp = TimeText(hit_data.timestamp)]
    ELSE hit_data

\* The row INSERT OR REPLACE writes: the primary key is the hit id alone.
HitRow(session, hit_data) ==
    [ session_id |-> session,
      endpoint |-> hit_data.endpoint,
      method |-> hit_data.method,
      status_code |-> Get(hit_data, "status_code"),
      duration_ms |-> Get(hit_data, "duration_ms"),
      timestamp |-> hit_data.timestamp,
      data |-> JsonRoundTrip(hit_data) ]

\* A variant of save_hit with INSERT OR IGNORE: a row whose id is already
\* stored is kept as first written.
save_hit_keep_first(table, on, session, hit_data) ==
    IF ~on THEN table
    ELSE [i \in DOMAIN table \cup {hit_data.id} |->
            IF i \in DOMAIN table THEN table[i] ELSE HitRow(session, hit_data)]

\* TUIPersistence.save_hit on the endpoint_hits table (id -> row).
save_hit(table, on, session, hit_data) ==
    IF ~on THEN table
    ELSE [i \in DOMAIN table \cup {hit_data.id} |->
            IF i = hit_data.id THEN HitRow(session, hit_data) ELSE table[i]]

\* A variant of save_log without the "if not self.enabled: return" guard.
save_log_unguarded(table, on, session, level, message, timestamp) ==
    Append(table, [session_id |-> session, level |-> level,
                   message |-> message, timestamp |-> timestamp])

\* TUIPersistence.save_log on the server_logs table (rows in rowid order).
save_log(table, on, session, level, message, timestamp) ==
    IF ~on THEN table
    ELSE Append(table, [session_id |-> session, level |-> level,
                        message |-> message, timestamp |-> timestamp])

\* ------------------------------------------------------------ request viewer
\* The index of the first hit with this id, 0 when there is none.
FindHit(hits, id) ==
    IF \E i \in 1..Len(hits) : hits[i].id = id
    THEN CHOOSE i \in 1..Len(hits) :
            /\ hits[i].id = id
            /\ \A j \in 1..(i - 1) : hits[j].id # id
    ELSE 0

\* A variant of add_hit that moves an updated hit to the front of the list.
add_hit_to_front(hits, hit) ==
    LET inserted == <<hit>> \o SelectSeq(hits, LAMBDA h : h.id # hit.id)
    IN SubSeq(inserted, 1, IF Len(inserted) > MaxHits THEN MaxHits
                           ELSE Len(inserted))

\* RequestViewer.add_hit
add_hit(hits, hit) ==
    LET existing_index == FindHit(hits, hit.id)
        inserted == <<hit>> \o hits
    IN IF existing_index > 0
       THEN [hits EXCEPT ![existing_index] = hit]
       ELSE SubSeq(inserted, 1, IF Len(inserted) > MaxHits THEN MaxHits
                                ELSE Len(inserted))

\* The position of an endpoint's viewer in endpoint_viewers (a dict, kept in
\* insertion order), 0 when it has none.
ViewerIndex(viewers, endpoint) ==
    IF \E i \in 1..Len(viewers) : viewers[i].endpoint = endpoint
    THEN CHOOSE i \in 1..Len(viewers) : viewers[i].endpoint = endpoint
    ELSE 0

\* FastAPITUI.add_window
add_window(viewers, endpoint) ==
    IF ViewerIndex(viewers, endpoint) > 0 THEN viewers
    ELSE Append(viewers, [endpoint |-> endpoint, hits |-> << >>])

\* endpoint_viewers[endpoint].add_hit(hit)
ViewerAddHit(viewers, endpoint, hit) ==
    LET v == ViewerIndex(viewers, endpoint)
    IN [viewers EXCEPT ![v].hits = add_hit(@, hit)]

\* The first <<viewer, hit>> position holding this id, scanning the viewers in
\* insertion order and each viewer's hits from the newest; <<0, 0>> if none.
LocateHit(viewers, id) ==
    IF \E v \in 1..Len(viewers) : FindHit(viewers[v].hits, id) > 0
    THEN LET v == CHOOSE w \in 1..Len(viewers) :
                    /\ FindHit(viewers[w].hits, id) > 0
                    /\ \A u \in 1..(w - 1) : FindHit(viewers[u].hits, id) = 0
         IN <<v, FindHit(viewers[v].hits, id)>>
    ELSE <<0, 0>>

\* ---------------------------------------------------------------- producer
\* The HTTP requests a client may send. Header names are as the client wrote
\* them; the body is the decoded JSON object.
Inputs ==
    { [ path |-> "/users", method |-> "GET",
        headers |-> ("User-Agent" :> "curl"), body |-> None ],
      [ path |-> "/items/42", method |-> "GET",
        headers |-> ("Authorization" :> "Bearer s3cr3t") @@ ("X-Api-Key" :> "k-123"),
        body |-> None ],
      [ path |-> "/health", method |-> "GET",
        headers |-> ("User-Agent" :> "probe"), body |-> None ],
      [ path |-> "/login", method |-> "POST",
        headers |-> ("content-type" :> "application/json"),
        body |-> Some([Password |-> "hunter2", user |-> "bob"]) ] }

\* route.path of the route that matches the request (app.routes of the
\* monitored service: /users, /items/{item_id}, /health, /login).
RouteTemplate(path) ==
    CASE path = "/items/42" -> "/items/{item_id}"
      [] OTHER -> path

\* TUIMiddleware._get_endpoint_path
get_endpoint_path(request) == RouteTemplate(request.path)

\* request.headers.get(name): header names compare case-insensitively; the
\* empty string stands for an absent header.
HeaderGet(headers, name) ==
    IF \E k \in DOMAIN headers : Lower(k) = name
    THEN headers[CHOOSE k \in DOMAIN headers : Lower(k) = name]
    ELSE ""

\* TUIMiddleware._capture_headers
capture_headers(request) ==
    LET kept == {n \in {"content-type", "user-agent", "authorization"} :
                    HeaderGet(request.headers, n) # ""}
    IN [n \in kept |->
            IF n = "authorization" THEN "***" ELSE HeaderGet(request.headers, n)]

\* TUIMiddleware._capture_request_body
capture_request_body(request) ==
    IF request.method \notin {"POST", "PUT", "PATCH"} THEN None
    ELSE request.body

\* The JSON response of the wrapped handler when it returns.
HandlerResponse(request) ==
    [ status_code |-> 200,
      content_type |-> "application/json",
      body |-> IF request.path = "/login"
               THEN [access_token |-> "tok-1"] ELSE [ok |-> "yes"] ]

\* build_error_response + create_cors_json_response
ErrorResponse(status_code, error_message) ==
    [ status_code |-> status_code,
      content_type |-> "application/json",
      body |-> [error |-> error_message, detail |-> "boom"] ]

\* TUIMiddleware._capture_response_body: the parsed body of a JSON response.
capture_response_body(response) ==
    IF response.content_type # "application/json" THEN None
    ELSE Some(response.body)

\* A variant of put_nowait that serves the newest event first.
put_nowait_front(q, event) == <<event>> \o q

\* queue.put_nowait on the manager's Queue(), which has no maxsize.
put_nowait(q, event) == Append(q, event)

\* TUIMiddleware._send_pending_event
send_pending_event(q, request_id, endpoint, method, timestamp, request_body, request_headers) ==
    put_nowait(q,
        [ type |-> "request",
          data |-> [ id |-> request_id, endpoint |-> endpoint,
                     method |-> method, status_code |-> None,
                     duration_ms |-> None, timestamp |-> timestamp,
                     request_body |-> request_body,
                     request_headers |-> request_headers,
                     runtime_logs |-> << >>,
                     pending |-> TRUE, completed |-> FALSE ] ])

\* A variant of _send_completed_event that puts nothing on the queue.
send_completed_event_dropped(q, request_id, endpoint, method, status_code, duration_ms, timestamp, request_body, request_headers, response_body, runtime_logs) == q

\* TUIMiddleware._send_completed_event
send_completed_event(q, request_id, endpoint, method, status_code, duration_ms, timestamp, request_body, request_headers, response_body, runtime_logs) ==
    put_nowait(q,
        [ type |-> "request",
          data |-> [ id |-> request_id, endpoint |-> endpoint,
                     method |-> method, status_code |-> Some(status_code),
                     duration_ms |-> Some(duration_ms), timestamp |-> timestamp,
                     request_body |-> request_body,
                     request_headers |-> request_headers,
                     response_body |-> response_body,
                     runtime_logs |-> runtime_logs,
                     pending |-> FALSE, completed |-> TRUE ] ])

\* is_dev_mode(): ENV defaults to "development".
is_dev_mode == TRUE

\* add_runtime_log inside a request: the grown buffer and the queue with the
\* incremental update (log entries here are strings, which scrub_data returns
\* unchanged).
add_runtime_log(q, request_id, logs, log) ==
    IF ~Config.enable_runtime_logs THEN [logs |-> logs, queue |-> q]
    ELSE LET grown == Append(logs, log)
         IN [ logs |-> grown,
              queue |-> put_nowait(q,
                [ type |-> "runtime_log_update",
                  data |-> [ request_id |-> Some(request_id), log |-> log,
                             all_logs |-> grown ] ]) ]

\* capture_exception: the exception event put on the queue in dev mode.
capture_exception(q, request_id, endpoint, method) ==
    IF is_dev_mode
    THEN put_nowait(q,
            [ type |-> "exception",
              data |-> [ id |-> <<"exc", request_id>>,
                         exception_type |-> "RuntimeError",
                         message |-> "boom",
                         request_id |-> Some(request_id),
                         endpoint |-> endpoint, method |-> method ] ])
    ELSE q

\* A variant of send_exception_to_tui that reports no completion.
send_exception_to_tui_unreported(q, request_id, path, method, status_code, duration_ms, error_content, runtime_logs) == q

\* send_exception_to_tui: a request event with completed=True and neither a
\* pending nor a timestamp key.
send_exception_to_tui(q, request_id, path, method, status_code, duration_ms, error_content, runtime_logs) ==
    put_nowait(q,
        [ type |-> "request",
          data |-> [ id |-> request_id, endpoint |-> path, method |-> method,
                     status_code |-> Some(status_code),
                     duration_ms |-> Some(duration_ms),
                     response_body |-> Some(error_content),
                     runtime_logs |-> runtime_logs,
                     completed |-> TRUE ] ])

\* handle_exception_with_tui: runtime log, exception capture, completion
\* update; yields the buffer, the queue and the error response.
handle_exception_with_tui(q, request_id, request, logs, status_code, error_message, duration_ms) ==
    LET logged == add_runtime_log(q, request_id, logs, "Exception from Handler: boom")
        captured == capture_exception(logged.queue, request_id,
                                      request.path, request.method)
        response == ErrorResponse(status_code, error_message)
    IN [ logs |-> logged.logs,
         queue |-> send_exception_to_tui(captured, request_id, request.path,
                        request.method, status_code, duration_ms,
                        response.body, logged.logs),
         response |-> response ]

\* -------------------------------------------------------------- dispatcher
\* data["timestamp"] when it is a datetime, else datetime.now().
EventTime(data, now) ==
    IF "timestamp" \in DOMAIN data THEN data.timestamp ELSE now

\* The EndpointHit of the pending branch of _handle_legacy_request.
PendingHit(data, now) ==
    [ id |-> data.id, endpoint |-> data.endpoint, method |-> data.method,
      status_code |-> None, duration_ms |-> None,
      timestamp |-> EventTime(data, now),
      request_body |-> Get(data, "request_body"),
      request_headers |-> Get(data, "request_headers"),
      response_body |-> None,
      runtime_logs |-> GetList(data, "runtime_logs"),
      exceptions |-> << >>, pending |-> TRUE ]

\* A variant of the fallback branch that leaves the new hit pending.
CompletedHitStillPending(data, now) == PendingHit(data, now)

\* The EndpointHit of the fallback branch (completed, no hit found).
CompletedHit(data, now) ==
    [ id |-> data.id, endpoint |-> data.endpoint, method |-> data.method,
      status_code |-> OrElse(Get(data, "status_code"), Get(data, "status")),
      duration_ms |-> OrElse(Get(data, "duration_ms"), Get(data, "duration")),
      timestamp |-> EventTime(data, now),
      request_body |-> Get(data, "request_body"),
      request_headers |-> Get(data, "request_headers"),
      response_body |-> Get(data, "response_body"),
      runtime_logs |-> GetList(data, "runtime_logs"),
      exceptions |-> << >>, pending |-> FALSE ]

\* The in-place update of the hit found for a completed event.
UpdatedHit(existing_hit, data) ==
    [ existing_hit EXCEPT
        !.status_code = OrElse(Get(data, "status_code"), Get(data, "status")),
        !.duration_ms = OrElse(Get(data, "duration_ms"), Get(data, "duration")),
        !.response_body = Get(data, "response_body"),
        !.runtime_logs = GetList(data, "runtime_logs"),
        !.pending = FALSE,
        !.exceptions = IF "exception" \in DOMAIN data
                       THEN Append(@, data.exception) ELSE @ ]

\* FastAPITUI._handle_hit: the viewer gets the hit; the statistics are updated
\* only when the endpoint already has an entry, because creating the entry
\* evaluates the undefined name `endpoint` and raises NameError, which
\* process_events catches.
handle_hit(viewers, stats, hit) ==
    [ viewers |-> ViewerAddHit(add_window(viewers, hit.endpoint), hit.endpoint, hit),
      stats |-> IF hit.endpoint \in DOMAIN stats
                THEN [stats EXCEPT ![hit.endpoint] = StatsUpdate(@, hit, TRUE)]
                ELSE stats ]

\* The statistics step of the completed branch with a hit found.
CompletedStats(stats, endpoint, hit) ==
    IF endpoint \in DOMAIN stats
    THEN [stats EXCEPT ![endpoint] = StatsUpdate(@, hit, FALSE)]
    ELSE [e \in DOMAIN stats \cup {endpoint} |->
            IF e = endpoint THEN StatsUpdate(NewStats, hit, TRUE) ELSE stats[e]]

\* A variant of _handle_legacy_request whose pending branch does not look
\* for an existing hit: it always builds and stores the pending hit.
handle_legacy_request_resetting(viewers, stats, table, on, session, data, now) ==
    LET endpoint == data.endpoint
        v == ViewerIndex(viewers, endpoint)
        h == IF v > 0 THEN FindHit(viewers[v].hits, data.id) ELSE 0
    IN IF GetBool(data, "pending") \/ ~GetBool(data, "completed")
       THEN LET hit == PendingHit(data, now)
                handled == handle_hit(viewers, stats, hit)
            IN [ viewers |-> handled.viewers, stats |-> handled.stats,
                 table |-> save_hit(table, on, session, hit) ]
       ELSE IF h > 0
            THEN LET hit == UpdatedHit(viewers[v].hits[h], data)
                 IN [ viewers |-> ViewerAddHit(viewers, endpoint, hit),
                      stats |-> CompletedStats(stats, endpoint, hit),
                      table |-> save_hit(table, on, session, hit) ]
            ELSE LET hit == CompletedHit(data, now)
                     handled == handle_hit(viewers, stats, hit)
                 IN [ viewers |-> handled.viewers, stats |-> handled.stats,
                      table |-> save_hit(table, on, session, hit) ]

\* FastAPITUI._handle_legacy_request with save=True: the viewers, statistics
\* and endpoint_hits table after the event.
handle_legacy_request(viewers, stats, table, on, session, data, now) ==
    LET endpoint == data.endpoint
        v == ViewerIndex(viewers, endpoint)
        h == IF v > 0 THEN FindHit(viewers[v].hits, data.id) ELSE 0
    IN IF GetBool(data, "pending") \/ ~GetBool(data, "completed")
       THEN IF h = 0
            THEN LET hit == PendingHit(data, now)
                     handled == handle_hit(viewers, stats, hit)
                 IN [ viewers |-> handled.viewers, stats |-> handled.stats,
                      table |-> save_hit(table, on, session, hit) ]
            ELSE [viewers |-> viewers, stats |-> stats, table |-> table]
       ELSE IF h > 0
            THEN LET hit == UpdatedHit(viewers[v].hits[h], data)
                 IN [ viewers |-> ViewerAddHit(viewers, endpoint, hit),
                      stats |-> CompletedStats(stats, endpoint, hit),
                      table |-> save_hit(table, on, session, hit) ]
            ELSE LET hit == CompletedHit(data, now)
                     handled == handle_hit(viewers, stats, hit)
                 IN [ viewers |-> handled.viewers, stats |-> handled.stats,
                      table |-> save_hit(table, on, session, hit) ]

\* A variant of _handle_runtime_log_update that appends the payload's list.
handle_runtime_log_update_appending(viewers, data) ==
    LET request_id == Get(data, "request_id")
        at == IF request_id = None THEN <<0, 0>>
              ELSE LocateHit(viewers, request_id[1])
    IN IF at[1] = 0 THEN viewers
       ELSE [viewers EXCEPT ![at[1]].hits[at[2]].runtime_logs =
                @ \o GetList(data, "all_logs")]

\* FastAPITUI._handle_runtime_log_update
handle_runtime_log_update(viewers, data) ==
    LET request_id == Get(data, "request_id")
        at == IF request_id = None THEN <<0, 0>>
              ELSE LocateHit(viewers, request_id[1])
    IN IF at[1] = 0 THEN viewers
       ELSE [viewers EXCEPT ![at[1]].hits[at[2]].runtime_logs =
                GetList(data, "all_logs")]

\* ExceptionViewer.add_exception keeps the newest 100.
MaxExceptions == 100

add_exception(list, exc_data) ==
    <<exc_data>> \o SubSeq(list, 1, IF Len(list) > MaxExceptions - 1
                                    THEN MaxExceptions - 1 ELSE Len(list))

\* A variant of _handle_exception_event that attaches nothing to the hit.
handle_exception_event_unlinked(viewers, data) == viewers

\* FastAPITUI._handle_exception_event: the hit side.
handle_exception_event(viewers, data) ==
    LET request_id == Get(data, "request_id")
        at == IF request_id = None THEN <<0, 0>>
              ELSE LocateHit(viewers, request_id[1])
    IN IF at[1] = 0 THEN viewers
       ELSE [viewers EXCEPT ![at[1]].hits[at[2]].exceptions = Append(@, data)]

\* ---------------------------------------------------------------- variables
VARIABLES
    req,                \* producer: per request, where dispatch() stands
    clock,              \* the wall clock both processes read (datetime.now())
    queue,              \* the IPC queue, oldest event first
    sent,               \* history: every event ever put on the queue
    endpoint_viewers,   \* dispatcher: the viewers, in insertion order
    endpoint_stats,     \* dispatcher: endpoint -> EndpointStats
    exceptions,         \* dispatcher: the global exception stream
    db_sessions,        \* store: ids of the rows of table sessions
    db_hits,            \* store: table endpoint_hits, id -> row
    db_logs,            \* store: table server_logs, in rowid order
    enabled,            \* store: TUIPersistence.enabled
    current_session_id, \* store: the live session (0 stands for "disabled")
    session_count,      \* store: sessions started so far (the uuid source)
    recorded,           \* history: <<kind, live session, data>> of every save
    stats,              \* SpecStats: the EndpointStats under test
    fed,                \* SpecStats: every duration fed, in arrival order
    cfg,                \* SpecConfig: the TUIConfig the supervisor holds
    payload,            \* SpecConfig: the decoded TUI_CONFIG_PAYLOAD, once written
    restored,           \* SpecConfig: the TUIConfig the subprocess rebuilds
    taken,              \* SpecDispatch history: the events get_nowait returned, in order
    tick,               \* SpecDispatch: where process_events stands
    server_logs,        \* dispatcher: ServerLogsViewer.all_logs
    svc,                \* SpecService: the service process (channel, hooks, config)
    flight,             \* SpecService: the request dispatch() is wrapping, if any
    served,             \* SpecService history: the outcome of the request just finished
    heap,               \* SpecContext: the list objects, by reference
    tasks,              \* SpecContext: per request, its task's context and request.state
    capture,            \* SpecCapture: one call of capture_exception and its result
    schema,             \* SpecSchema: the tables of the database file, by layout
    sup                 \* SpecRunner: the supervisor, its subprocess and its reader

producerVars == <<req, clock>>
channelVars == <<queue, sent>>
dispatcherVars == <<endpoint_viewers, endpoint_stats, exceptions>>
storeVars == <<db_sessions, db_hits, db_logs, enabled, current_session_id,
               session_count, recorded>>
statsVars == <<stats, fed>>
configVars == <<cfg, payload, restored>>
tickVars == <<taken, tick, server_logs>>
serviceVars == <<svc, flight, served>>
contextVars == <<heap, tasks>>
laterVars == <<contextVars, capture, schema, sup>>
sideVars == <<configVars, tickVars, serviceVars, laterVars>>
vars == <<producerVars, channelVars, dispatcherVars, storeVars, statsVars, sideVars>>

\* No configuration payload has been written.
ConfigIdle ==
    /\ cfg = DefaultConfig
    /\ payload = None
    /\ restored = None

\* No request has reached the worker: the only list object is the default
\* of runtime_logs_ctx, and every task has the context variables' defaults.
ContextIdle ==
    /\ heap = [o \in {0} |-> << >>]
    /\ tasks = [t \in {1, 2} |->
                    [ phase |-> "new",
                      ctx |-> [queue |-> << >>, request_id |-> << >>, logs |-> 0],
                      state |-> [ tui_log_queue |-> << >>,
                                  tui_request_id |-> << >>,
                                  tui_runtime_logs |-> << >> ],
                      calls |-> 0 ]]

\* capture_exception has not been called.
CaptureIdle ==
    capture = [ env |-> "development", log_queue |-> << >>, ctx_queue |-> << >>,
                traceback |-> << >>, result |-> << >> ]

\* The database file has the tables of the current layout.
SchemaIdle ==
    schema = [ sessions |-> "current", endpoint_hits |-> "current",
               server_logs |-> "current", migrated |-> FALSE ]

\* TUIRunner(): no manager, no subprocess, the stop event clear; run has not
\* been called.
NewRunner ==
    [ main |-> "setup", frames |-> << >>, handlers |-> FALSE, signals |-> 0,
      stop_event |-> FALSE, manager |-> "none",
      api_process |-> [state |-> "none", terminated |-> FALSE, waited |-> FALSE],
      pipe |-> << >>, written |-> << >>,
      reader |-> [pc |-> "none", line |-> ""],
      enable_runtime_logs |-> TRUE ]

\* TUIRunner.run has not been called.
SupIdle == sup = NewRunner

LaterIdle == ContextIdle /\ CaptureIdle /\ SchemaIdle /\ SupIdle

\* The service process before create_tui_app has run.
ServiceIdle ==
    /\ svc = [ env |-> "unset", channel |-> << >>, middleware |-> FALSE,
               bridge |-> FALSE, up |-> FALSE, waiting |-> << >>,
               enable_runtime_logs |-> TRUE, next_id |-> 1 ]
    /\ flight = << >>
    /\ served = << >>

\* process_events has not run yet.
TickIdle ==
    /\ taken = << >>
    /\ tick = [active |-> FALSE, owed |-> 0]
    /\ server_logs = << >>

SideIdle == ConfigIdle /\ TickIdle /\ ServiceIdle /\ LaterIdle

RequestIds == 1..MaxRequests

\* Handler durations in milliseconds.
ReqDurations == {2}

\* The events a step put on the queue.
Enqueued(before, after) == SubSeq(after, Len(before) + 1, Len(after))

\* The events the dispatcher has taken off the queue, oldest first.
Handled == SubSeq(sent, 1, Len(sent) - Len(queue))

\* TUIPersistence() with persistence enabled: the first session is live.
StoreInit ==
    /\ enabled = Config.enable_persistence
    /\ db_sessions = {1}
    /\ db_hits = << >>
    /\ db_logs = << >>
    /\ current_session_id = 1
    /\ session_count = 1
    /\ recorded = {}

Init ==
    /\ req = [r \in RequestIds |->
                [pc |-> "idle", request |-> << >>, start_time |-> 0,
                 logs |-> << >>, outcome |-> "none"]]
    /\ clock = 0
    /\ queue = << >>
    /\ sent = << >>
    /\ endpoint_viewers = << >>
    /\ endpoint_stats = << >>
    /\ exceptions = << >>
    /\ StoreInit
    /\ stats = NewStats
    /\ fed = << >>
    /\ SideIdle

\* TUIMiddleware.dispatch up to call_next: bind the request context, capture
\* the request and send the pending event.
Dispatch(r) ==
    /\ req[r].pc = "idle"
    /\ \A earlier \in 1..(r - 1) : req[earlier].pc # "idle"
    /\ \E request \in Inputs :
        LET start_time == clock + 1
            q == send_pending_event(queue, r, get_endpoint_path(request),
                    request.method, start_time,
                    capture_request_body(request), capture_headers(request))
        IN /\ clock' = start_time
           /\ queue' = q
           /\ sent' = sent \o Enqueued(queue, q)
           /\ req' = [req EXCEPT ![r] =
                        [pc |-> "handler", request |-> request,
                         start_time |-> start_time, logs |-> << >>,
                         outcome |-> "none"]]
    /\ UNCHANGED <<dispatcherVars, storeVars, statsVars, sideVars>>

\* call_next returns a response: capture it and send the completed event.
HandlerReturns(r) ==
    /\ req[r].pc = "handler"
    /\ \E duration \in ReqDurations :
        LET request == req[r].request
            response == HandlerResponse(request)
            q == send_completed_event(queue, r, request.path, request.method,
                    response.status_code, duration, req[r].start_time,
                    capture_request_body(request), capture_headers(request),
                    capture_response_body(response), req[r].logs)
        IN /\ queue' = q
           /\ sent' = sent \o Enqueued(queue, q)
    /\ req' = [req EXCEPT ![r].pc = "done", ![r].outcome = "returned"]
    /\ UNCHANGED <<clock, dispatcherVars, storeVars, statsVars, sideVars>>

\* call_next raises: handle_exception_with_tui builds the 500 response, then
\* dispatch goes on to capture it and send its own completed event, with the
\* duration it measures afterwards.
HandlerRaises(r) ==
    /\ req[r].pc = "handler"
    /\ \E duration \in ReqDurations :
        LET request == req[r].request
            handled == handle_exception_with_tui(queue, r, request, req[r].logs,
                            500, "Critical Internal Error (Middleware Caught)",
                            duration)
            q == send_completed_event(handled.queue, r, request.path,
                    request.method, handled.response.status_code, duration + 1,
                    req[r].start_time, capture_request_body(request),
                    capture_headers(request),
                    capture_response_body(handled.response), handled.logs)
        IN /\ queue' = q
           /\ sent' = sent \o Enqueued(queue, q)
           /\ req' = [req EXCEPT ![r].pc = "done", ![r].outcome = "raised",
                                 ![r].logs = handled.logs]
    /\ UNCHANGED <<clock, dispatcherVars, storeVars, statsVars, sideVars>>

\* process_events takes a "request" event: _handle_legacy_request.
HandleRequestEvent ==
    /\ queue # << >>
    /\ Head(queue).type = "request"
    /\ LET after == handle_legacy_request(endpoint_viewers, endpoint_stats,
                        db_hits, enabled, current_session_id,
                        Head(queue).data, clock)
       IN /\ endpoint_viewers' = after.viewers
          /\ endpoint_stats' = after.stats
          /\ db_hits' = after.table
    /\ queue' = Tail(queue)
    /\ UNCHANGED <<producerVars, sent, exceptions, db_sessions, db_logs,
                   enabled, current_session_id, session_count, recorded,
                   statsVars, sideVars>>

\* process_events takes a "runtime_log_update" event.
HandleRuntimeLogUpdate ==
    /\ queue # << >>
    /\ Head(queue).type = "runtime_log_update"
    /\ endpoint_viewers' = handle_runtime_log_update(endpoint_viewers, Head(queue).data)
    /\ queue' = Tail(queue)
    /\ UNCHANGED <<producerVars, sent, endpoint_stats, exceptions, storeVars,
                   statsVars, sideVars>>

\* process_events takes an "exception" event.
HandleExceptionEvent ==
    /\ queue # << >>
    /\ Head(queue).type = "exception"
    /\ exceptions' = add_exception(exceptions, Head(queue).data)
    /\ endpoint_viewers' = handle_exception_event(endpoint_viewers, Head(queue).data)
    /\ queue' = Tail(queue)
    /\ UNCHANGED <<producerVars, sent, endpoint_stats, storeVars, statsVars, sideVars>>

Next ==
    \/ \E r \in RequestIds : Dispatch(r)
    \/ \E r \in RequestIds : HandlerReturns(r)
    \/ \E r \in RequestIds : HandlerRaises(r)
    \/ HandleRequestEvent
    \/ HandleRuntimeLogUpdate
    \/ HandleExceptionEvent

Spec == Init /\ [][Next]_vars

\* ---------------------------------------------------------------- SpecStore
\* The sequences that list every element of S exactly once.
Orderings(S) ==
    {o \in [1..Cardinality(S) -> S] :
        \A i, j \in 1..Cardinality(S) : i # j => o[i] # o[j]}

\* LIMIT n
Take(rows, n) == SubSeq(rows, 1, IF Len(rows) > n THEN n ELSE Len(rows))

\* A variant of get_recent_hits without the WHERE session_id = ? filter.
get_recent_hits_any_session(table, on, current, limit, session_id) ==
    IF ~on THEN << >>
    ELSE LET ids == DOMAIN table
             o == CHOOSE o \in Orderings(ids) :
                    \A i \in 1..(Len(o) - 1) :
                        table[o[i]].timestamp >= table[o[i + 1]].timestamp
         IN [i \in 1..Len(Take(o, limit)) |-> table[o[i]].data]

\* TUIPersistence.get_recent_hits(limit, session_id): SELECT data ... WHERE
\* session_id = ? ORDER BY timestamp DESC LIMIT ?. Hits with different ids
\* carry different timestamps here, so the order is determined.
get_recent_hits(table, on, current, limit, session_id) ==
    IF ~on THEN << >>
    ELSE LET target_session == IF session_id # None THEN session_id[1] ELSE current
             ids == {i \in DOMAIN table : table[i].session_id = target_session}
             o == CHOOSE o \in Orderings(ids) :
                    \A i \in 1..(Len(o) - 1) :
                        table[o[i]].timestamp >= table[o[i + 1]].timestamp
         IN [i \in 1..Len(Take(o, limit)) |-> table[o[i]].data]

\* The dict get_recent_logs builds from a row.
LogEntry(row) ==
    [level |-> row.level, message |-> row.message, timestamp |-> row.timestamp]

\* TUIPersistence.get_recent_logs(limit, session_id): SELECT ... WHERE
\* session_id = ? ORDER BY timestamp ASC LIMIT ?.
get_recent_logs(table, on, current, limit, session_id) ==
    IF ~on THEN << >>
    ELSE LET target_session == IF session_id # None THEN session_id[1] ELSE current
             rows == SelectSeq(table, LAMBDA row : row.session_id = target_session)
             ordered == SortSeq(rows, LAMBDA x, y : x.timestamp < y.timestamp)
             limited == Take(ordered, limit)
         IN [i \in 1..Len(limited) |-> LogEntry(limited[i])]

\* TUIPersistence.get_sessions: SELECT * FROM sessions ORDER BY start_time
\* DESC; a session started later has the larger id here.
get_sessions(sessions, on) ==
    IF ~on THEN << >>
    ELSE CHOOSE o \in Orderings(sessions) :
            \A i \in 1..(Len(o) - 1) : o[i] > o[i + 1]

\* A variant of delete_session_hits without the WHERE session_id = ? clause.
delete_all_hits(table, session_id) == << >>

\* DELETE FROM endpoint_hits WHERE session_id = ?
delete_session_hits(table, session_id) ==
    [i \in {j \in DOMAIN table : table[j].session_id # session_id} |-> table[i]]

\* DELETE FROM server_logs WHERE session_id = ?
delete_session_logs(table, session_id) ==
    SelectSeq(table, LAMBDA row : row.session_id # session_id)

\* The hits the dispatcher may hand to save_hit: a hit is saved once pending
\* and again completed, under the same id.
StoreHits ==
    { [ id |-> i, endpoint |-> "/users", method |-> "GET",
        status_code |-> IF done THEN Some(200) ELSE None,
        duration_ms |-> IF done THEN Some(2) ELSE None,
        timestamp |-> i, pending |-> ~done ] :
      i \in 1..2, done \in BOOLEAN }

\* The hit an earlier run with persistence enabled left in the database file.
PriorRunHit ==
    [ id |-> 1, endpoint |-> "/users", method |-> "GET", status_code |-> Some(200),
      duration_ms |-> Some(2), timestamp |-> 1, pending |-> FALSE ]

\* TUIPersistence(): with persistence enabled the constructor starts the first
\* session, otherwise current_session_id is "disabled" and the constructor
\* does not touch the database file, which is absent or holds the session,
\* hit and log of an earlier run.
StoreSpecInit ==
    /\ req = << >>
    /\ clock = 0
    /\ queue = << >>
    /\ sent = << >>
    /\ endpoint_viewers = << >>
    /\ endpoint_stats = << >>
    /\ exceptions = << >>
    /\ enabled \in BOOLEAN
    /\ \E prior \in BOOLEAN :
        /\ db_sessions = IF enabled \/ prior THEN {1} ELSE {}
        /\ db_hits = IF ~enabled /\ prior
                     THEN save_hit(<< >>, TRUE, 1, PriorRunHit) ELSE << >>
        /\ db_logs = IF ~enabled /\ prior
                     THEN save_log(<< >>, TRUE, 1, "INFO", "started", 0) ELSE << >>
    /\ current_session_id = IF enabled THEN 1 ELSE 0
    /\ session_count = 1
    /\ recorded = {}
    /\ stats = NewStats
    /\ fed = << >>
    /\ SideIdle

StoreFrame == UNCHANGED <<req, queue, sent, dispatcherVars, enabled, statsVars, sideVars>>

\* TUIPersistence.start_new_session
StartNewSession ==
    /\ clock < MaxStoreOps
    /\ session_count < 1 + MaxSessions
    /\ clock' = clock + 1
    /\ IF enabled
       THEN /\ session_count' = session_count + 1
            /\ current_session_id' = session_count + 1
            /\ db_sessions' = db_sessions \cup {session_count + 1}
       ELSE UNCHANGED <<session_count, current_session_id, db_sessions>>
    /\ UNCHANGED <<db_hits, db_logs, recorded>>
    /\ StoreFrame

\* TUIPersistence.save_hit(hit_data)
SaveHit ==
    /\ clock < MaxStoreOps
    /\ clock' = clock + 1
    /\ \E hit_data \in StoreHits :
        /\ db_hits' = save_hit(db_hits, enabled, current_session_id, hit_data)
        /\ recorded' = IF enabled
                       THEN recorded \cup {<<"hit", current_session_id,
                                             JsonRoundTrip(hit_data)>>}
                       ELSE recorded
    /\ UNCHANGED <<db_sessions, db_logs, current_session_id, session_count>>
    /\ StoreFrame

\* TUIPersistence.save_log(level, message, timestamp)
SaveLog ==
    /\ clock < MaxStoreOps
    /\ clock' = clock + 1
    /\ \E message \in {"started", "stopped"} :
        /\ db_logs' = save_log(db_logs, enabled, current_session_id, "INFO",
                               message, clock + 1)
        /\ recorded' = IF enabled
                       THEN recorded \cup {<<"log", current_session_id,
                                LogEntry([level |-> "INFO", message |-> message,
                                          timestamp |-> clock + 1])>>}
                       ELSE recorded
    /\ UNCHANGED <<db_sessions, db_hits, current_session_id, session_count>>
    /\ StoreFrame

\* TUIPersistence.delete_session(session_id)
DeleteSession ==
    /\ clock < MaxStoreOps
    /\ clock' = clock + 1
    /\ \E session_id \in 1..session_count :
        IF enabled
        THEN /\ db_hits' = delete_session_hits(db_hits, session_id)
             /\ db_logs' = delete_session_logs(db_logs, session_id)
             /\ db_sessions' = db_sessions \ {session_id}
        ELSE UNCHANGED <<db_hits, db_logs, db_sessions>>
    /\ UNCHANGED <<current_session_id, session_count, recorded>>
    /\ StoreFrame

StoreNext ==
    \/ StartNewSession
    \/ SaveHit
    \/ SaveLog
    \/ DeleteSession

SpecStore == StoreSpecInit /\ [][StoreNext]_vars

\* ---------------------------------------------------------------- SpecStats
\* Durations the stream may choose freely.
Durations == {0, 40}

\* The durations of the middle of the stream.
Pattern(k) == (k * 37) % 101

\* The durations the k+1-th update may carry: free at the start of the stream
\* and from the update that fills the window on.
FeedChoices(k) ==
    IF k < FreeFeeds \/ k >= MaxDurations - 1 THEN Durations ELSE {Pattern(k)}

StatsInit ==
    /\ req = << >>
    /\ clock = 0
    /\ queue = << >>
    /\ sent = << >>
    /\ endpoint_viewers = << >>
    /\ endpoint_stats = << >>
    /\ exceptions = << >>
    /\ StoreInit
    /\ stats = NewStats
    /\ fed = << >>
    /\ SideIdle

\* One completed hit reaches EndpointStats.update.
Feed ==
    /\ Len(fed) < MaxDurations + FeedExtra
    /\ \E d \in FeedChoices(Len(fed)) :
        /\ stats' = StatsUpdate(stats,
                        [status_code |-> Some(200), duration_ms |-> Some(d),
                         timestamp |-> Len(fed) + 1], TRUE)
        /\ fed' = Append(fed, d)
    /\ UNCHANGED <<producerVars, channelVars, dispatcherVars, storeVars, sideVars>>

StatsNext == Feed

SpecStats == StatsInit /\ [][StatsNext]_vars

\* ----------------------------------------------------------------- SpecLive
\* The event loop runs a dispatched request's handler until it returns or
\* raises.
SpecLive ==
    /\ Init
    /\ [][Next]_vars
    /\ \A r \in RequestIds : WF_vars(HandlerReturns(r) \/ HandlerRaises(r))

\* ------------------------------------------------------------------ history
\* The branch test of _handle_legacy_request, on an event.
IsPendingEvent(e) == GetBool(e.data, "pending") \/ ~GetBool(e.data, "completed")

\* The "request" events for one id among events, oldest first.
RequestEvents(events, id) ==
    SelectSeq(events, LAMBDA e : e.type = "request" /\ e.data.id = id)

PendingEvents(events, id) ==
    SelectSeq(RequestEvents(events, id), IsPendingEvent)

CompletedEvents(events, id) ==
    SelectSeq(RequestEvents(events, id), LAMBDA e : ~IsPendingEvent(e))

\* Where the hits with this id stand, over all endpoint viewers.
HitsWithId(viewers, id) ==
    {at \in (1..Len(viewers)) \X (1..MaxHits) :
        /\ at[2] <= Len(viewers[at[1]].hits)
        /\ viewers[at[1]].hits[at[2]].id = id}

\* The ids of the hits the dispatcher has observed for an endpoint.
ObservedIds(endpoint) ==
    {Handled[i].data.id :
        i \in {j \in 1..Len(Handled) : /\ Handled[j].type = "request"
                                       /\ Handled[j].data.endpoint = endpoint}}

ObservedEndpoints ==
    {Handled[i].data.endpoint : i \in {j \in 1..Len(Handled) : Handled[j].type = "request"}}

\* A dict holds no original value under a key of the mask set.
Masked(data, mask) ==
    \A k \in DOMAIN data : Lower(k) \in mask => data[k] = MaskSentinel

MaskedBody(body) == body = None \/ Masked(body[1], Config.mask_body_fields)

\* ------------------------------------------------------------------- claims
\* C1: for every id, once the dispatcher has handled one Pending and at least
\* one Completed event, exactly one hit with that id exists over all viewers,
\* it is not pending, and its status_code, duration_ms, response_body and
\* runtime_logs are those of the last Completed event handled.
C1_OneHitPerId ==
    \A id \in RequestIds :
        LET completed == CompletedEvents(Handled, id)
            last == completed[Len(completed)].data
            at == HitsWithId(endpoint_viewers, id)
        IN (Len(PendingEvents(Handled, id)) = 1 /\ Len(completed) >= 1) =>
            /\ Cardinality(at) = 1
            /\ \A a \in at :
                LET hit == endpoint_viewers[a[1]].hits[a[2]]
                IN /\ hit.pending = FALSE
                   /\ hit.status_code = last.status_code
                   /\ hit.duration_ms = last.duration_ms
                   /\ hit.response_body = Get(last, "response_body")
                   /\ hit.runtime_logs = GetList(last, "runtime_logs")

\* C2: for every endpoint the dispatcher has observed a hit for, total_hits is
\* the number of distinct hit ids observed for that endpoint.
C2_TotalHitsCountsIds ==
    \A endpoint \in ObservedEndpoints :
        /\ endpoint \in DOMAIN endpoint_stats
        /\ endpoint_stats[endpoint].total_hits = Cardinality(ObservedIds(endpoint))

C4_OneCompletedOnRaise ==
    \A r \in RequestIds :
        req[r].outcome = "raised" =>
            LET completed == CompletedEvents(sent, r)
            IN /\ Len(completed) = 1
               /\ completed[1].data.status_code = Some(500)
               /\ queue = << >> =>
                    \A a \in HitsWithId(endpoint_viewers, r) :
                        Len(endpoint_viewers[a[1]].hits[a[2]].exceptions) = 1

\* C5: a request that should_log_request rejects has no event on the channel
\* and no stats entry; every other request, once served, has one Pending event
\* and a Completed event with the same id.
C5_ExcludedRequestsAreSilent ==
    \A r \in RequestIds :
        req[r].pc # "idle" =>
            LET request == req[r].request
            IN IF should_log_request(Config, request.path, request.method)
               THEN req[r].pc = "done" =>
                        /\ Len(PendingEvents(sent, r)) = 1
                        /\ Len(CompletedEvents(sent, r)) >= 1
               ELSE /\ RequestEvents(sent, r) = << >>
                    /\ request.path \notin DOMAIN endpoint_stats

\* C6: in every Pending and Completed event put on the channel and in every
\* stored hit, each body field and header whose lower-cased name is in the
\* mask sets holds the mask sentinel.
C6_MaskedEverywhere ==
    /\ \A i \in 1..Len(sent) :
        sent[i].type = "request" =>
            /\ MaskedBody(Get(sent[i].data, "request_body"))
            /\ MaskedBody(Get(sent[i].data, "response_body"))
            /\ "request_headers" \in DOMAIN sent[i].data =>
                    Masked(sent[i].data.request_headers, Config.mask_headers)
    /\ \A id \in DOMAIN db_hits :
        /\ MaskedBody(db_hits[id].data.request_body)
        /\ MaskedBody(db_hits[id].data.response_body)
        /\ Masked(db_hits[id].data.request_headers, Config.mask_headers)

\* The session arguments a query may be called with.
SessionArgs == {None} \cup {Some(s) : s \in 1..session_count}

\* The session a query argument stands for.
TargetSession(session_id) ==
    IF session_id # None THEN session_id[1] ELSE current_session_id

\* C7: get_recent_hits and get_recent_logs for a session return only hits and
\* logs that were saved while that session was live, and no hit is returned
\* for two sessions.
C7_SessionIsolation ==
    \A session_id \in SessionArgs :
        LET hits == get_recent_hits(db_hits, enabled, current_session_id,
                                    HitsLimit, session_id)
            logs == get_recent_logs(db_logs, enabled, current_session_id,
                                    LogsLimit, session_id)
        IN /\ \A i \in 1..Len(hits) :
                /\ <<"hit", TargetSession(session_id), hits[i]>> \in recorded
                /\ \A other \in 1..session_count :
                    other # TargetSession(session_id) =>
                        LET theirs == get_recent_hits(db_hits, enabled,
                                        current_session_id, HitsLimit, Some(other))
                        IN \A j \in 1..Len(theirs) : theirs[j].id # hits[i].id
           /\ \A i \in 1..Len(logs) :
                <<"log", TargetSession(session_id), logs[i]>> \in recorded

\* C7 witness: two sessions hold hits and logs of their own, and the query for
\* the superseded one returns a hit and a log.
C7_Witness ==
    /\ current_session_id = 2
    /\ \E id \in DOMAIN db_hits : db_hits[id].session_id = 2
    /\ get_recent_hits(db_hits, enabled, current_session_id, HitsLimit, Some(1)) # << >>
    /\ get_recent_logs(db_logs, enabled, current_session_id, LogsLimit, Some(1)) # << >>

\* C8: a step never moves or modifies a hit row of a session other than the
\* live one; such a row only goes away when its whole session is deleted.
C8_SupersededRowsImmutable ==
    [][\A id \in DOMAIN db_hits :
        db_hits[id].session_id # current_session_id' =>
            \/ id \in DOMAIN db_hits' /\ db_hits'[id] = db_hits[id]
            \/ /\ id \notin DOMAIN db_hits'
               /\ \A other \in DOMAIN db_hits' :
                    db_hits'[other].session_id # db_hits[id].session_id]_vars

\* C9: after any sequence of updates with non-negative durations,
\* p50 <= p95 <= p99.
C9_PercentilesOrdered == stats.p50 <= stats.p95 /\ stats.p95 <= stats.p99

\* C9 witness: a full window whose percentiles differ.
C9_Witness ==
    /\ Len(stats.durations) = MaxDurations
    /\ stats.p50 < stats.p95
    /\ stats.p95 < stats.p99

\* C10: the window never holds more than 1000 durations and is exactly the
\* last 1000 durations fed (all of them while fewer were fed), in arrival order.
C10_WindowIsLastThousand ==
    /\ Len(stats.durations) <= MaxDurations
    /\ stats.durations =
        SubSeq(fed, IF Len(fed) > MaxDurations THEN Len(fed) - MaxDurations + 1 ELSE 1,
               Len(fed))

\* C10 witness: more than 1000 durations were fed and the oldest is evicted.
C10_Witness ==
    /\ Len(fed) > MaxDurations
    /\ Len(stats.durations) = MaxDurations
    /\ stats.durations[1] = fed[Len(fed) - MaxDurations + 1]

\* --------------------------------------------------------------- SpecConfig
\* The configurations a supervisor may hold: the default-constructed one and
\* ones whose set-typed fields were given as sets.
ConfigValues ==
    { [DefaultConfig EXCEPT !.exclude_paths = paths, !.exclude_methods = methods,
                            !.log_level = LogLevel(level),
                            !.enable_persistence = persist] :
        paths \in {EmptyDict, PySet({}), PySet({"/health"}),
                   PySet({"/health", "/items/42"})},
        methods \in {PySet({}), PySet({"OPTIONS"})},
        level \in LogLevelValues,
        persist \in BOOLEAN }

\* Producer, channel, dispatcher, store and statistics as constructed.
ProgramIdle ==
    /\ req = << >>
    /\ clock = 0
    /\ queue = << >>
    /\ sent = << >>
    /\ endpoint_viewers = << >>
    /\ endpoint_stats = << >>
    /\ exceptions = << >>
    /\ StoreInit
    /\ stats = NewStats
    /\ fed = << >>

ConfigInit ==
    /\ ProgramIdle
    /\ TickIdle
    /\ ServiceIdle
    /\ LaterIdle
    /\ cfg \in ConfigValues
    /\ payload = None
    /\ restored = None

\* The supervisor writes TUI_CONFIG_PAYLOAD = cfg.to_json_payload().
WritePayload ==
    /\ payload = None
    /\ \E data \in to_json_payload(cfg) : payload' = Some(data)
    /\ UNCHANGED <<cfg, restored>>
    /\ UNCHANGED <<producerVars, channelVars, dispatcherVars, storeVars, statsVars, tickVars, serviceVars, laterVars>>

\* get_config() in the subprocess: TUIConfig.from_json_payload(payload).
ReadPayload ==
    /\ payload # None
    /\ restored = None
    /\ restored' = Some(from_json_payload(payload[1]))
    /\ UNCHANGED <<cfg, payload>>
    /\ UNCHANGED <<producerVars, channelVars, dispatcherVars, storeVars, statsVars, tickVars, serviceVars, laterVars>>

ConfigNext ==
    \/ WritePayload
    \/ ReadPayload

SpecConfig == ConfigInit /\ [][ConfigNext]_vars

\* C11: the configuration rebuilt from the payload equals the configuration
\* the payload was made from, field for field, the default one included.
C11_PayloadRoundTrip == restored # None => restored[1] = cfg

\* ------------------------------------------------------------- SpecDispatch
\* The dispatcher's state as one value.
DispatcherState ==
    [ viewers |-> endpoint_viewers, stats |-> endpoint_stats,
      exceptions |-> exceptions, hits |-> db_hits, logs |-> db_logs,
      server_logs |-> server_logs ]

\* Whether _handle_legacy_request raises: both branches that find no hit call
\* _handle_hit, which raises NameError when the endpoint has no stats entry.
legacy_request_raises(viewers, entries, data) ==
    LET v == ViewerIndex(viewers, data.endpoint)
        h == IF v > 0 THEN FindHit(viewers[v].hits, data.id) ELSE 0
    IN h = 0 /\ data.endpoint \notin DOMAIN entries

\* The "log" branch of _handle_event: save_log, default the type, _handle_log.
handle_log_event(d, log_data, on, session, now) ==
    LET level == IF "level" \in DOMAIN log_data THEN log_data.level ELSE "INFO"
        message == IF "message" \in DOMAIN log_data THEN log_data.message ELSE ""
        timestamp == IF "timestamp" \in DOMAIN log_data THEN log_data.timestamp ELSE now
        typed == IF "type" \in DOMAIN log_data THEN log_data
                 ELSE [k \in DOMAIN log_data \cup {"type"} |->
                        IF k = "type" THEN level ELSE log_data[k]]
    IN [d EXCEPT !.logs = save_log(@, on, session, level, message, timestamp),
                 !.server_logs = Append(@, typed)]

\* FastAPITUI._handle_event with save=True: the dispatcher's state after the
\* event and whether the handler raised.
handle_event(d, event, on, session, now) ==
    CASE event.type = "request" ->
            LET after == handle_legacy_request(d.viewers, d.stats, d.hits, on,
                                               session, event.data, now)
            IN [ state |-> [d EXCEPT !.viewers = after.viewers,
                                     !.stats = after.stats,
                                     !.hits = after.table],
                 raised |-> legacy_request_raises(d.viewers, d.stats, event.data) ]
      [] event.type = "runtime_log_update" ->
            [ state |-> [d EXCEPT !.viewers = handle_runtime_log_update(@, event.data)],
              raised |-> FALSE ]
      [] event.type = "exception" ->
            [ state |-> [d EXCEPT !.exceptions = add_exception(@, event.data),
                                  !.viewers = handle_exception_event(@, event.data)],
              raised |-> FALSE ]
      [] event.type = "log" ->
            [ state |-> handle_log_event(d, event.data, on, session, now),
              raised |-> FALSE ]
      [] OTHER -> [state |-> d, raised |-> FALSE]

\* queue.put on the manager's Queue(), which has no maxsize.
put(q, event) == Append(q, event)

\* The endpoint the requests with this id go to.
DispatchEndpoint(id) == IF id = 1 THEN "/users" ELSE "/login"

DispatchIds == {1, 2}

\* The events the service's process may put on the queue.
ProducerEvents ==
    {send_pending_event(<< >>, id, DispatchEndpoint(id), "GET", 1, None, << >>)[1] :
        id \in DispatchIds}
    \cup {send_completed_event(<< >>, id, DispatchEndpoint(id), "GET", 200, 2, 1,
                               None, << >>, Some([ok |-> "yes"]), <<"a">>)[1] :
            id \in DispatchIds}
    \cup {add_runtime_log(<< >>, 1, <<"a">>, "b").queue[1],
          [type |-> "runtime_log_update",
           data |-> [request_id |-> None, log |-> "b", all_logs |-> <<"b">>]]}
    \cup {capture_exception(<< >>, 1, DispatchEndpoint(1), "GET")[1],
          [type |-> "exception",
           data |-> [id |-> <<"exc", 0>>, exception_type |-> "RuntimeError",
                     message |-> "boom", request_id |-> None,
                     endpoint |-> "/users", method |-> "GET"]]}
    \cup {[type |-> "log",
           data |-> [level |-> "INFO", message |-> "started", timestamp |-> 1,
                     type |-> "UVICORN"]]}

\* The event _monitor_process_output puts for one line of output.
RawLogEvent ==
    [type |-> "log", data |-> [level |-> "INFO", message |-> "line", type |-> "RAW"]]

DispatchInit ==
    /\ ProgramIdle
    /\ ConfigIdle
    /\ TickIdle
    /\ ServiceIdle
    /\ LaterIdle

DispatchFrame == UNCHANGED <<req, clock, db_sessions, enabled, current_session_id,
                             session_count, recorded, statsVars, configVars,
                             serviceVars, laterVars>>

\* The service's process puts an event (put_nowait through the proxy).
ProducerPut ==
    /\ Len(sent) < MaxEvents
    /\ \E event \in ProducerEvents :
        /\ queue' = put_nowait(queue, event)
        /\ sent' = Append(sent, event)
    /\ UNCHANGED <<dispatcherVars, db_hits, db_logs, tickVars>>
    /\ DispatchFrame

\* The supervisor's output reader puts a log event (queue.put).
ReaderPut ==
    /\ Len(sent) < MaxEvents
    /\ queue' = put(queue, RawLogEvent)
    /\ sent' = Append(sent, RawLogEvent)
    /\ UNCHANGED <<dispatcherVars, db_hits, db_logs, tickVars>>
    /\ DispatchFrame

\* The interval timer calls process_events.
TickStart ==
    /\ ~tick.active
    /\ tick' = [active |-> TRUE, owed |-> Len(queue)]
    /\ UNCHANGED <<channelVars, dispatcherVars, db_hits, db_logs, taken, server_logs>>
    /\ DispatchFrame

\* One turn of the loop of process_events: get_nowait, _handle_event; an
\* exception of the handler ends the loop.
TakeEvent ==
    /\ tick.active
    /\ queue # << >>
    /\ LET event == Head(queue)
           after == handle_event(DispatcherState, event, enabled,
                                 current_session_id, clock)
       IN /\ endpoint_viewers' = after.state.viewers
          /\ endpoint_stats' = after.state.stats
          /\ exceptions' = after.state.exceptions
          /\ db_hits' = after.state.hits
          /\ db_logs' = after.state.logs
          /\ server_logs' = after.state.server_logs
          /\ taken' = Append(taken, event)
          /\ tick' = [active |-> ~after.raised,
                      owed |-> IF tick.owed > 0 THEN tick.owed - 1 ELSE 0]
    /\ queue' = Tail(queue)
    /\ UNCHANGED sent
    /\ DispatchFrame

\* The loop of process_events finds the queue empty.
TickEnd ==
    /\ tick.active
    /\ queue = << >>
    /\ tick' = [tick EXCEPT !.active = FALSE]
    /\ UNCHANGED <<channelVars, dispatcherVars, db_hits, db_logs, taken, server_logs>>
    /\ DispatchFrame

DispatchNext ==
    \/ ProducerPut
    \/ ReaderPut
    \/ TickStart
    \/ TakeEvent
    \/ TickEnd

SpecDispatch == DispatchInit /\ [][DispatchNext]_vars

\* The step takes an event of this type off the queue.
Takes(type) ==
    /\ Len(taken') = Len(taken) + 1
    /\ queue # << >>
    /\ Head(queue).type = type

\* The viewers with one field of the hits at the places `at` replaced.
ViewersWith(at, change(_)) ==
    [v \in 1..Len(endpoint_viewers) |->
        [ endpoint |-> endpoint_viewers[v].endpoint,
          hits |-> [h \in 1..Len(endpoint_viewers[v].hits) |->
                        IF <<v, h>> \in at
                        THEN change(endpoint_viewers[v].hits[h])
                        ELSE endpoint_viewers[v].hits[h]] ]]

\* The places of the hits an event's request id names.
Correlated(data) ==
    IF Get(data, "request_id") = None THEN {}
    ELSE HitsWithId(endpoint_viewers, data.request_id[1])

\* No runtime_log_update for this id was taken after the k-th taken event.
NoLogUpdateAfter(k, id) ==
    \A i \in (k + 1)..Len(taken) :
        taken[i].type = "runtime_log_update" => taken[i].data.request_id # Some(id)

C13_TickDrainsQueue == ~tick.active => tick.owed = 0

\* C14: the events the dispatcher has taken, followed by the events still
\* queued, are the events enqueued, in the order they were enqueued.
C14_Fifo == taken \o queue = sent

\* C14 witness: events of the service and of the output reader were queued
\* together and have been taken.
C14_Witness ==
    /\ Len(taken) >= 2
    /\ \E i, j \in 1..Len(taken) : taken[i] = RawLogEvent /\ taken[j] \in ProducerEvents
    /\ tick.owed >= 1

\* C18: taking a runtime_log_update sets the runtime_logs of the hit its
\* request id names to the payload's all_logs and changes no other hit; with
\* no such hit, or no request id, the viewers stay as they are.
C18_LogUpdateReplaces ==
    [][Takes("runtime_log_update") =>
        LET data == Head(queue).data
            replaced(hit) == [hit EXCEPT !.runtime_logs = data.all_logs]
        IN endpoint_viewers' = ViewersWith(Correlated(data), replaced)]_vars

\* C18 witness: a hit that was given one log by its Completed event holds the
\* two logs of a later runtime_log_update.
C18_Witness ==
    \E a \in HitsWithId(endpoint_viewers, 1) :
        /\ endpoint_viewers[a[1]].hits[a[2]].runtime_logs = <<"a", "b">>
        /\ endpoint_viewers[a[1]].hits[a[2]].pending = FALSE

\* C19: taking an exception event puts it at the head of the global stream;
\* when its request id names a hit, it is appended once to that hit's
\* exceptions and no other hit changes.
C19_ExceptionRouted ==
    [][Takes("exception") =>
        LET data == Head(queue).data
            attached(hit) == [hit EXCEPT !.exceptions = Append(@, data)]
        IN /\ exceptions' = <<data>> \o exceptions
           /\ endpoint_viewers' = ViewersWith(Correlated(data), attached)]_vars

\* C19 witness: the stream holds an exception without request id and one
\* that is attached to its hit.
C19_Witness ==
    /\ \E i \in 1..Len(exceptions) : exceptions[i].request_id = None
    /\ \E a \in HitsWithId(endpoint_viewers, 1) :
        /\ Len(endpoint_viewers[a[1]].hits[a[2]].exceptions) = 1
        /\ endpoint_viewers[a[1]].hits[a[2]].exceptions[1] \in
                {exceptions[i] : i \in 1..Len(exceptions)}

\* ------------------------------------------------------- SpecService
\* The monitored service's process on its own: create_tui_app, the middleware
\* around one request at a time, add_runtime_log and print() calls made by the
\* handler, and the manager process going away.  The dispatcher appears only
\* as the reader that takes events off the queue.  The events a request has
\* put are kept with the request (flight, served); sent is not used here.

\* A variant of Queue.full for a queue that holds one event.
full_at_one(q) == Len(q) >= 1

\* Queue.full(): ipc.py makes the queue with Queue(), and maxsize 0 means
\* that the queue has no limit.
full(q) == QueueMaxsize > 0 /\ Len(q) >= QueueMaxsize

\* try: queue.put_nowait(...) except Exception: the proxy call raises when the
\* manager is unreachable and put_nowait raises Full on a full queue; the
\* handler swallows both and the event is dropped.
attempt(up, q, result) == IF up /\ ~full(q) THEN result ELSE q

\* queue.put(...) in send_log_to_queue, inside try/except Exception: an
\* unreachable manager raises and the line is dropped; on a full queue the
\* call waits for room.
blocking_put(up, q, event) ==
    IF ~up THEN [queue |-> q, waiting |-> None]
    ELSE IF full(q) THEN [queue |-> q, waiting |-> Some(event)]
    ELSE [queue |-> put(q, event), waiting |-> None]

\* How the service process finds its environment at start-up.
BootEnvs == {"started_by_runner", "no_port", "no_authkey", "refused"}

\* A variant of get_queue_client that hands out a proxy without connecting.
get_queue_client_unconnected(env) ==
    IF env \in {"no_port", "no_authkey"} THEN None ELSE Some("proxy")

\* get_queue_client: None when TUI_IPC_PORT or TUI_IPC_AUTHKEY is missing or
\* when manager.connect() raises.
get_queue_client(env) ==
    CASE env = "no_port" -> None
      [] env = "no_authkey" -> None
      [] env = "refused" -> None
      [] OTHER -> Some("proxy")

\* create_tui_app: the log bridge and the middleware are set up only with a
\* queue.
create_tui_app(env) ==
    LET log_queue == get_queue_client(env)
    IN [ channel |-> log_queue,
         bridge |-> log_queue # None,
         middleware |-> log_queue # None ]

\* get_config() in the service process.
ServiceConfig == [Config EXCEPT !.enable_runtime_logs = svc.enable_runtime_logs]

\* A runtime log the handler passes: a string or a dict.
StrLog(text) == [kind |-> "str", value |-> text]

DictLog(fields) == [kind |-> "dict", value |-> fields]

HandlerLogs ==
    { StrLog("step 1"),
      DictLog([Password |-> "hunter2", user |-> "bob"]) }

\* TUIConfig.scrub_data on a runtime log.
scrub_log(c, log) ==
    IF log.kind = "dict" THEN DictLog(scrub_data(c, log.value)) ELSE log

\* The context variables outside the middleware (their defaults).
DefaultContext == [queue |-> None, request_id |-> None, logs |-> << >>]

\* A variant of add_runtime_log that enqueues only the new entry.
add_runtime_log_entry_only(c, up, q, ctx, log) ==
    IF ctx.queue = None \/ ~c.enable_runtime_logs \/ ctx.request_id = None
    THEN [logs |-> ctx.logs, queue |-> q]
    ELSE [ logs |-> Append(ctx.logs, scrub_log(c, log)),
           queue |-> attempt(up, q, put_nowait(q,
                [ type |-> "runtime_log_update",
                  data |-> [ request_id |-> ctx.request_id,
                             log |-> scrub_log(c, log),
                             all_logs |-> <<scrub_log(c, log)>> ] ])) ]

\* add_runtime_log under the context variables ctx: the buffer and the queue
\* after the call.
add_runtime_log_ctx(c, up, q, ctx, log) ==
    IF ctx.queue = None THEN [logs |-> ctx.logs, queue |-> q]
    ELSE IF ~c.enable_runtime_logs THEN [logs |-> ctx.logs, queue |-> q]
    ELSE IF ctx.request_id = None THEN [logs |-> ctx.logs, queue |-> q]
    ELSE LET scrubbed_log == scrub_log(c, log)
             logs == Append(ctx.logs, scrubbed_log)
         IN [ logs |-> logs,
              queue |-> attempt(up, q, put_nowait(q,
                [ type |-> "runtime_log_update",
                  data |-> [ request_id |-> ctx.request_id,
                             log |-> scrubbed_log,
                             all_logs |-> logs ] ])) ]

\* handle_exception_with_tui under the context variables ctx; in_state says
\* whether request.state carries the middleware's queue and request id.
handle_exception_with_tui_ctx(c, up, q, ctx, in_state, request_id, request, error_message) ==
    LET logged == add_runtime_log_ctx(c, up, q, ctx,
                        StrLog("Exception from Handler: boom"))
        captured == IF ctx.queue = None THEN logged.queue
                    ELSE attempt(up, logged.queue,
                            capture_exception(logged.queue, request_id,
                                              request.path, request.method))
        response == ErrorResponse(500, error_message)
    IN [ logs |-> logged.logs,
         queue |-> IF ~in_state THEN captured
                   ELSE attempt(up, captured,
                            send_exception_to_tui(captured, request_id,
                                request.path, request.method, 500, 2,
                                response.body, logged.logs)),
         response |-> response ]

\* A variant of _capture_response_body that lets the JSON error escape.
capture_response_unguarded(response, unparseable) ==
    [ response_body |-> None, response |-> response,
      raised |-> response.content_type = "application/json" /\ unparseable ]

\* _capture_response_body: the parsed body (None when the response is not
\* JSON or json.loads raises) and the response rebuilt from the bytes read.
capture_response(response, unparseable) ==
    IF response.content_type # "application/json"
    THEN [response_body |-> None, response |-> response, raised |-> FALSE]
    ELSE [ response_body |-> IF unparseable THEN None ELSE Some(response.body),
           response |-> [ status_code |-> response.status_code,
                          content_type |-> response.content_type,
                          body |-> response.body ],
           raised |-> FALSE ]

\* The requests sent to the service.
ServiceInputs == {i \in Inputs : i.path \in {"/items/42", "/login"}}

\* What the wrapped handler returns.
HandlerResponses(request) ==
    { HandlerResponse(request),
      [ status_code |-> 404, content_type |-> "text/plain",
        body |-> [ok |-> "no"] ] }

\* The events a step has put on the queue.
Put(before, after) == SubSeq(after, Len(before) + 1, Len(after))

ServiceInit ==
    /\ ProgramIdle
    /\ ConfigIdle
    /\ TickIdle
    /\ \E b \in BOOLEAN :
        svc = [ env |-> "unset", channel |-> None, middleware |-> FALSE,
                bridge |-> FALSE, up |-> FALSE, waiting |-> None,
                enable_runtime_logs |-> b, next_id |-> 1 ]
    /\ flight = None
    /\ served = None
    /\ LaterIdle

ServiceFrame == UNCHANGED <<producerVars, sent, dispatcherVars, storeVars, statsVars, configVars, tickVars, laterVars>>

\* The service module is imported: app = create_tui_app(app).
CreateTuiApp(env) ==
    /\ svc.env = "unset"
    /\ LET made == create_tui_app(env)
       IN svc' = [svc EXCEPT !.env = env, !.channel = made.channel,
                             !.middleware = made.middleware,
                             !.bridge = made.bridge,
                             !.up = (env = "started_by_runner")]
    /\ UNCHANGED <<flight, served, queue>>
    /\ ServiceFrame

\* The manager process goes away; calls through the proxy raise from now on.
ManagerStops ==
    /\ svc.up
    /\ svc' = [svc EXCEPT !.up = FALSE]
    /\ UNCHANGED <<flight, served, queue>>
    /\ ServiceFrame

\* A request arrives, the dispatcher having caught up with the queue (it polls
\* every 0.1 s).  With the middleware installed this is dispatch() up to
\* call_next: the context variables are set, the request is captured and the
\* Pending event is sent.  body_fault says that parsing the body raises,
\* route_fault that route matching raises.
Arrive(request, body_fault, route_fault) ==
    /\ svc.env # "unset"
    /\ svc.waiting = None
    /\ flight = None
    /\ queue = << >>
    /\ LET request_id == svc.next_id
           request_body == IF body_fault THEN None
                           ELSE capture_request_body(request)
           request_headers == capture_headers(request)
           endpoint_path == IF route_fault THEN request.path
                            ELSE get_endpoint_path(request)
           after == IF svc.middleware
                    THEN attempt(svc.up, queue,
                            send_pending_event(queue, request_id, endpoint_path,
                                request.method, request_id, request_body,
                                request_headers))
                    ELSE queue
       IN /\ queue' = after
          /\ flight' = Some(
                [ id |-> request_id, request |-> request,
                  ctx |-> IF svc.middleware
                          THEN [ queue |-> svc.channel,
                                 request_id |-> Some(request_id),
                                 logs |-> << >> ]
                          ELSE DefaultContext,
                  request_body |-> request_body,
                  request_headers |-> request_headers,
                  faults |-> body_fault \/ route_fault,
                  dropped |-> svc.middleware /\ after = queue,
                  put |-> Put(queue, after),
                  calls |-> 0 ])
    /\ svc' = [svc EXCEPT !.next_id = 3 - @]
    /\ served' = None
    /\ ServiceFrame

\* The handler calls add_runtime_log(log).
LogCall(log) ==
    /\ flight # None
    /\ svc.waiting = None
    /\ flight[1].calls < MaxLogs
    /\ LET after == add_runtime_log_ctx(ServiceConfig, svc.up, queue,
                                        flight[1].ctx, log)
       IN /\ queue' = after.queue
          /\ flight' = Some([flight[1] EXCEPT !.ctx.logs = after.logs,
                                              !.put = @ \o Put(queue, after.queue),
                                              !.calls = @ + 1])
    /\ UNCHANGED <<svc, served>>
    /\ ServiceFrame

\* The handler writes a line to stdout while the bridge stands in for
\* sys.stdout: BridgeLogger.write -> send_log_to_queue.
StdoutWrite ==
    /\ flight # None
    /\ svc.waiting = None
    /\ svc.bridge
    /\ Len(flight[1].put) < MaxEvents
    /\ LET after == blocking_put(svc.up, queue,
                        [ type |-> "log",
                          data |-> [ level |-> "PRINT", message |-> "hello",
                                     timestamp |-> flight[1].id,
                                     type |-> "PRINT" ] ])
       IN /\ queue' = after.queue
          /\ svc' = [svc EXCEPT !.waiting = after.waiting]
          /\ flight' = Some([flight[1] EXCEPT
                                !.put = @ \o Put(queue, after.queue),
                                !.dropped = @ \/ ~svc.up])
    /\ UNCHANGED served
    /\ ServiceFrame

\* The outcome of one request, as the client and the history see it.
Outcome(handler, captured, after) ==
    [ id |-> flight[1].id,
      middleware |-> svc.middleware,
      handler |-> handler,
      returned |-> IF captured.raised THEN None ELSE Some(captured.response),
      raised |-> captured.raised,
      faults |-> flight[1].faults,
      dropped |-> flight[1].dropped \/ (svc.middleware /\ after = queue),
      calls |-> flight[1].calls,
      logs |-> flight[1].ctx.logs,
      put |-> flight[1].put \o Put(queue, after) ]

\* The handler returns a response: the rest of dispatch().
Respond(response, unparseable) ==
    /\ flight # None
    /\ svc.waiting = None
    /\ LET f == flight[1]
           captured == IF svc.middleware
                       THEN capture_response(response, unparseable)
                       ELSE [ response_body |-> None, response |-> response,
                              raised |-> FALSE ]
           after == IF svc.middleware /\ ~captured.raised
                    THEN attempt(svc.up, queue,
                            send_completed_event(queue, f.id, f.request.path,
                                f.request.method, captured.response.status_code,
                                2, f.id, f.request_body, f.request_headers,
                                captured.response_body, f.ctx.logs))
                    ELSE queue
       IN /\ queue' = after
          /\ served' = Some(
                [Outcome(Some(response), captured, after) EXCEPT
                    !.faults = @ \/ (svc.middleware /\ unparseable)])
    /\ flight' = None
    /\ UNCHANGED svc
    /\ ServiceFrame

\* The handler raises.  With the middleware, dispatch() catches the exception
\* and calls handle_exception_with_tui; without it, the service's own
\* exception handler calls handle_exception_with_tui.
Fail ==
    /\ flight # None
    /\ svc.waiting = None
    /\ LET f == flight[1]
           handled == handle_exception_with_tui_ctx(ServiceConfig, svc.up,
                        queue, f.ctx, svc.middleware, f.id, f.request,
                        IF svc.middleware
                        THEN "Critical Internal Error (Middleware Caught)"
                        ELSE "Internal Server Error")
           captured == IF svc.middleware
                       THEN capture_response(handled.response, FALSE)
                       ELSE [ response_body |-> None,
                              response |-> handled.response, raised |-> FALSE ]
           after == IF svc.middleware /\ ~captured.raised
                    THEN attempt(svc.up, handled.queue,
                            send_completed_event(handled.queue, f.id,
                                f.request.path, f.request.method,
                                captured.response.status_code, 2, f.id,
                                f.request_body, f.request_headers,
                                captured.response_body, handled.logs))
                    ELSE handled.queue
       IN /\ queue' = after
          /\ served' = Some(
                [Outcome(None, captured, after) EXCEPT !.logs = handled.logs])
    /\ flight' = None
    /\ UNCHANGED svc
    /\ ServiceFrame

\* The dispatcher takes the oldest event; a put that waited for room goes
\* through.
ConsumerGet ==
    /\ queue # << >>
    /\ queue' = IF svc.waiting = None THEN Tail(queue)
                ELSE Append(Tail(queue), svc.waiting[1])
    /\ svc' = [svc EXCEPT !.waiting = None]
    /\ UNCHANGED <<flight, served>>
    /\ ServiceFrame

ServiceNext ==
    \/ \E env \in BootEnvs : CreateTuiApp(env)
    \/ ManagerStops
    \/ \E request \in ServiceInputs, body_fault, route_fault \in BOOLEAN :
            Arrive(request, body_fault, route_fault)
    \/ \E log \in HandlerLogs : LogCall(log)
    \/ StdoutWrite
    \/ \E request \in ServiceInputs, unparseable \in BOOLEAN :
        \E response \in HandlerResponses(request) :
            flight # None /\ flight[1].request = request
                /\ Respond(response, unparseable)
    \/ Fail
    \/ ConsumerGet

SpecService == ServiceInit /\ [][ServiceNext]_vars

\* The step is a call of add_runtime_log by the handler.
IsLogCall ==
    /\ flight # None
    /\ flight' # None
    /\ flight'[1].calls = flight[1].calls + 1

\* The runtime_log_update events among the events a request has put.
LogUpdates(events) == SelectSeq(events, LAMBDA e : e.type = "runtime_log_update")

\* The request events among the events a request has put.
HitEvents(events) == SelectSeq(events, LAMBDA e : e.type = "request")

\* short is a proper prefix of long.
ProperPrefix(short, long) ==
    /\ Len(short) < Len(long)
    /\ SubSeq(long, 1, Len(short)) = short

\* The updates a request has put carry strictly growing prefixes of its
\* buffer, and its last request event carries the whole buffer.
UpdatesGrow(outcome) ==
    LET updates == LogUpdates(outcome.put)
        hits == HitEvents(outcome.put)
    IN /\ \A i \in 1..Len(updates) - 1 :
            ProperPrefix(updates[i].data.all_logs, updates[i + 1].data.all_logs)
       /\ \A i \in 1..Len(updates) :
            SubSeq(outcome.logs, 1, Len(updates[i].data.all_logs))
                = updates[i].data.all_logs
       /\ (hits # << >> /\ ~hits[Len(hits)].data.pending) =>
            hits[Len(hits)].data.runtime_logs = outcome.logs

\* The call leaves the buffer and the queue as they were.
LogCallIsNoOp ==
    /\ flight'[1].ctx.logs = flight[1].ctx.logs
    /\ queue' = queue

\* The call appends one masked entry and, the channel being reachable, puts
\* one update that carries the whole buffer.
LogCallAppends ==
    \E log \in HandlerLogs :
        LET logs == Append(flight[1].ctx.logs, scrub_log(ServiceConfig, log))
        IN /\ flight'[1].ctx.logs = logs
           /\ svc.up =>
                queue' = Append(queue,
                    [ type |-> "runtime_log_update",
                      data |-> [ request_id |-> flight[1].ctx.request_id,
                                 log |-> scrub_log(ServiceConfig, log),
                                 all_logs |-> logs ] ])

C16_NoChannelNoCapture ==
    svc.env \in BootEnvs \ {"started_by_runner"} =>
        /\ svc.channel = None
        /\ ~svc.middleware
        /\ ~svc.bridge
        /\ queue = << >>
        /\ flight # None => flight[1].put = << >> /\ flight[1].ctx.logs = << >>
        /\ served # None =>
            /\ served[1].put = << >>
            /\ served[1].logs = << >>
            /\ ~served[1].raised
            /\ served[1].returned # None
            /\ served[1].handler # None => served[1].returned = served[1].handler

\* C16 witness: without a channel, a request whose handler called
\* add_runtime_log and then raised went through handle_exception_with_tui.
C16_Witness ==
    /\ svc.env = "refused"
    /\ served # None
    /\ served[1].calls >= 1
    /\ served[1].handler = None
    /\ served[1].returned # None

ContextRequests == {1, 2}

\* The context of a task that has set nothing.
BaseContext == [queue |-> None, request_id |-> None, logs |-> 0]

\* A variant of dispatch()'s first lines that leaves runtime_logs_ctx at its
\* default.
dispatch_enter_default_list(h, request_id) ==
    [ heap |-> h,
      ctx |-> [ queue |-> Some("proxy"), request_id |-> Some(request_id),
                logs |-> 0 ],
      state |-> [ tui_log_queue |-> Some("proxy"),
                  tui_request_id |-> Some(request_id),
                  tui_runtime_logs |-> None ] ]

\* dispatch(), lines 39-52: a new list (named here by the request id) for
\* runtime_logs_ctx, the request id and the queue in the context, and the
\* request id and the queue in request.state.
dispatch_enter(h, request_id) ==
    [ heap |-> [o \in DOMAIN h \cup {request_id} |->
                    IF o = request_id THEN << >> ELSE h[o]],
      ctx |-> [ queue |-> Some("proxy"), request_id |-> Some(request_id),
                logs |-> request_id ],
      state |-> [ tui_log_queue |-> Some("proxy"),
                  tui_request_id |-> Some(request_id),
                  tui_runtime_logs |-> None ] ]

\* restore_tui_context: with a queue in request.state and none in the
\* context, the three variables are set from request.state; a missing
\* tui_runtime_logs raises after the first two are set, and the except
\* clause leaves them set.
restore_tui_context(ctx, state) ==
    IF state.tui_log_queue = None THEN ctx
    ELSE IF ctx.queue # None THEN ctx
    ELSE [ queue |-> state.tui_log_queue,
           request_id |-> state.tui_request_id,
           logs |-> IF state.tui_runtime_logs = None THEN ctx.logs
                    ELSE state.tui_runtime_logs[1] ]

\* The context variables as add_runtime_log reads them: the list itself in
\* place of its reference.
get_context(h, ctx) ==
    [queue |-> ctx.queue, request_id |-> ctx.request_id, logs |-> h[ctx.logs]]

\* The entry a handler logs, marked with the request that logs it.
EntryOf(t) == StrLog(IF t = 1 THEN "entry of request 1" ELSE "entry of request 2")

\* The request sent to the worker.
ContextInput(t) == CHOOSE i \in Inputs : i.path = IF t = 1 THEN "/users" ELSE "/login"

ContextInit ==
    /\ ProgramIdle
    /\ ConfigIdle
    /\ TickIdle
    /\ ServiceIdle
    /\ ContextIdle
    /\ CaptureIdle
    /\ SchemaIdle
    /\ SupIdle

ContextFrame == UNCHANGED <<producerVars, sent, dispatcherVars, storeVars, statsVars, configVars, tickVars, serviceVars, capture, schema, sup>>

\* Request t enters dispatch(): context set, Pending event sent.
Enter(t) ==
    /\ tasks[t].phase = "new"
    /\ LET entered == dispatch_enter(heap, t)
           request == ContextInput(t)
       IN /\ heap' = entered.heap
          /\ tasks' = [tasks EXCEPT ![t].phase = "inside",
                                    ![t].ctx = entered.ctx,
                                    ![t].state = entered.state]
          /\ queue' = send_pending_event(queue, t, get_endpoint_path(request),
                            request.method, t, capture_request_body(request),
                            capture_headers(request))
    /\ ContextFrame

\* The handler of request t calls add_runtime_log.
HandlerLog(t) ==
    /\ tasks[t].phase = "inside"
    /\ tasks[t].calls < MaxLogs
    /\ LET after == add_runtime_log_ctx(Config, TRUE, queue,
                        get_context(heap, tasks[t].ctx), EntryOf(t))
       IN /\ heap' = [heap EXCEPT ![tasks[t].ctx.logs] = after.logs]
          /\ queue' = after.queue
    /\ tasks' = [tasks EXCEPT ![t].calls = @ + 1]
    /\ ContextFrame

\* dispatch()'s finally clause: the buffer goes to request.state and the
\* three tokens are reset.
dispatch_leave(task) ==
    [task EXCEPT !.phase = "left",
                 !.state.tui_runtime_logs = Some(task.ctx.logs),
                 !.ctx = BaseContext]

\* The handler of request t returns: Completed event, finally clause.
Leave(t) ==
    /\ tasks[t].phase = "inside"
    /\ LET request == ContextInput(t)
           response == HandlerResponse(request)
           captured == capture_response(response, FALSE)
       IN queue' = send_completed_event(queue, tasks[t].state.tui_request_id[1],
                        request.path, request.method, response.status_code, 2,
                        t, capture_request_body(request), capture_headers(request),
                        captured.response_body, heap[tasks[t].ctx.logs])
    /\ tasks' = [tasks EXCEPT ![t] = dispatch_leave(@)]
    /\ UNCHANGED heap
    /\ ContextFrame

\* handle_exception_with_tui called in the task of request t: restore the
\* context, log, capture, report.
HandleException(t, error_message) ==
    LET restored_ctx == restore_tui_context(tasks[t].ctx, tasks[t].state)
    IN [ ctx |-> restored_ctx,
         handled |-> handle_exception_with_tui_ctx(Config, TRUE, queue,
                        get_context(heap, restored_ctx),
                        tasks[t].state.tui_log_queue # None,
                        tasks[t].state.tui_request_id[1],
                        ContextInput(t), error_message) ]

\* The handler of request t raises: dispatch() catches the exception, calls
\* handle_exception_with_tui, sends the Completed event and leaves.
RaiseInside(t) ==
    /\ tasks[t].phase = "inside"
    /\ LET request == ContextInput(t)
           h == HandleException(t, "Critical Internal Error (Middleware Caught)")
           captured == capture_response(h.handled.response, FALSE)
       IN /\ heap' = [heap EXCEPT ![h.ctx.logs] = h.handled.logs]
          /\ queue' = send_completed_event(h.handled.queue,
                        tasks[t].state.tui_request_id[1], request.path,
                        request.method, captured.response.status_code, 2, t,
                        capture_request_body(request), capture_headers(request),
                        captured.response_body, h.handled.logs)
          /\ tasks' = [tasks EXCEPT ![t] = dispatch_leave([@ EXCEPT !.ctx = h.ctx])]
    /\ ContextFrame

\* After dispatch() has returned, a middleware further out raises and the
\* service's exception handler calls handle_exception_with_tui in the same
\* task, whose context variables are back at their defaults.
RaiseOutside(t) ==
    /\ tasks[t].phase = "left"
    /\ LET h == HandleException(t, "Internal Server Error")
       IN /\ heap' = [heap EXCEPT ![h.ctx.logs] = h.handled.logs]
          /\ queue' = h.handled.queue
          /\ tasks' = [tasks EXCEPT ![t].ctx = h.ctx, ![t].phase = "done"]
    /\ ContextFrame

\* The task of request t ends.
TaskEnds(t) ==
    /\ tasks[t].phase = "left"
    /\ tasks' = [tasks EXCEPT ![t].phase = "done"]
    /\ UNCHANGED <<heap, queue>>
    /\ ContextFrame

ContextNext ==
    \E t \in ContextRequests :
        \/ Enter(t)
        \/ HandlerLog(t)
        \/ Leave(t)
        \/ RaiseInside(t)
        \/ RaiseOutside(t)
        \/ TaskEnds(t)

SpecContext == ContextInit /\ [][ContextNext]_vars

\* The request id an event carries.
EventRequestId(e) ==
    IF e.type = "request" THEN e.data.id ELSE e.data.request_id[1]

\* The runtime-log entries an event carries.
EventEntries(e) ==
    CASE e.type = "runtime_log_update" ->
            {e.data.log} \cup {e.data.all_logs[i] : i \in 1..Len(e.data.all_logs)}
      [] e.type = "request" ->
            {e.data.runtime_logs[i] : i \in 1..Len(e.data.runtime_logs)}
      [] OTHER -> {}

\* C21: every event a step of request t puts on the queue carries the id of
\* t, and the log entries in it were appended during t: none is an entry of
\* the other request.
C21_ContextStaysWithRequest ==
    [][\A t \in ContextRequests :
        tasks'[t] # tasks[t] =>
            \A i \in 1..Len(Put(queue, queue')) :
                LET e == Put(queue, queue')[i]
                IN /\ EventRequestId(e) = t
                   /\ \A other \in ContextRequests \ {t} :
                        EntryOf(other) \notin EventEntries(e)]_vars

\* C21 witness: both requests are inside dispatch() at once and each has
\* appended to its buffer.
C21_Witness ==
    /\ tasks[1].phase = "inside"
    /\ tasks[2].phase = "inside"
    /\ heap[tasks[1].ctx.logs] = <<EntryOf(1), EntryOf(1)>>
    /\ heap[tasks[2].ctx.logs] = <<EntryOf(2)>>

\* ------------------------------------------------------- SpecCapture
\* capture_exception called once, for every environment, queue argument,
\* context and traceback of up to MaxFrames frames.

\* is_dev_mode() under a value of ENV.
is_dev_mode_in(env) == env \in {"development", "dev", "local"}

\* _is_sensitive: the name contains one of SENSITIVE_PATTERNS ("monkey"
\* contains "key").
is_sensitive(name) == name \in {"password", "api_key", "monkey"}

\* The first n elements of a sequence.
FirstN(seq, n) == SubSeq(seq, 1, IF Len(seq) < n THEN Len(seq) ELSE n)

\* _extract_locals: names starting with "_" are skipped, at most max_vars of
\* the others are kept, sensitive ones masked.
extract_locals(frame_locals, max_vars) ==
    LET public == SelectSeq(frame_locals, LAMBDA v : v.name # "_tmp")
        kept == FirstN(public, max_vars)
    IN [i \in 1..Len(kept) |->
            [ name |-> kept[i].name,
              value |-> IF is_sensitive(kept[i].name) THEN "***MASKED***"
                        ELSE kept[i].value ]]

\* The frames a traceback can hold.
FrameKinds ==
    { [ function |-> "login",
        locals |-> << [name |-> "password", value |-> "hunter2"],
                      [name |-> "user", value |-> "bob"] >> ],
      [ function |-> "helper",
        locals |-> << [name |-> "_tmp", value |-> "t"],
                      [name |-> "monkey", value |-> "m"] >> ],
      [ function |-> "leaf", locals |-> << >> ] }

RECURSIVE Tracebacks(_)
Tracebacks(n) ==
    IF n = 0 THEN {<< >>}
    ELSE Tracebacks(n - 1) \cup
         {Append(tb, f) : tb \in {x \in Tracebacks(n - 1) : Len(x) = n - 1},
                          f \in FrameKinds}

\* capture_exception: the frames are built whenever ENV names a development
\* mode and a traceback exists; the queue is looked for afterwards, first in
\* the argument and then in the context.  The result holds the ExceptionInfo,
\* the events put, and how many frames were walked and locals looked at.
capture_exception_info(env, log_queue, ctx_queue, traceback) ==
    LET walk == is_dev_mode_in(env) /\ traceback # << >>
        frames == IF walk
                  THEN [i \in 1..Len(traceback) |->
                          [ function |-> traceback[i].function,
                            locals_preview |->
                                extract_locals(traceback[i].locals, MaxVars) ]]
                  ELSE << >>
        exc_info == [ exception_type |-> "RuntimeError", message |-> "boom",
                      frames |-> frames ]
        found == IF log_queue = None THEN ctx_queue ELSE log_queue
    IN [ exc_info |-> exc_info,
         put |-> IF is_dev_mode_in(env) /\ found # None
                 THEN <<[type |-> "exception", data |-> exc_info]>>
                 ELSE << >>,
         walked |-> IF walk THEN Len(traceback) ELSE 0,
         snapshots |-> IF walk
                       THEN Cardinality({<<i, j>> \in (1..Len(traceback)) \X (1..MaxVars) :
                                j <= Len(frames[i].locals_preview)})
                       ELSE 0 ]

CaptureInit ==
    /\ ProgramIdle
    /\ ConfigIdle
    /\ TickIdle
    /\ ServiceIdle
    /\ ContextIdle
    /\ SchemaIdle
    /\ SupIdle
    /\ \E env \in {"development", "production"}, log_queue, ctx_queue \in {None, Some("proxy")} :
        \E traceback \in Tracebacks(MaxFrames) :
            capture = [ env |-> env, log_queue |-> log_queue,
                        ctx_queue |-> ctx_queue, traceback |-> traceback,
                        result |-> None ]

\* The service's code calls capture_exception(exc, log_queue=...).
CaptureException ==
    /\ capture.result = None
    /\ capture' = [capture EXCEPT !.result =
            Some(capture_exception_info(capture.env, capture.log_queue,
                                        capture.ctx_queue, capture.traceback))]
    /\ UNCHANGED <<producerVars, channelVars, dispatcherVars, storeVars, statsVars, configVars, tickVars, serviceVars, contextVars, schema, sup>>

CaptureNext == CaptureException

SpecCapture == CaptureInit /\ [][CaptureNext]_vars

\* C22: with no queue in the argument and none in the context,
\* capture_exception walks no frame, looks at no local variable, puts no
\* event and returns a descriptor without frames.
C22_NoChannelFastPath ==
    (capture.result # None /\ capture.log_queue = None /\ capture.ctx_queue = None) =>
        /\ capture.result[1].walked = 0
        /\ capture.result[1].snapshots = 0
        /\ capture.result[1].put = << >>
        /\ capture.result[1].exc_info.frames = << >>

\* ------------------------------------------------------- claims on the store
\* C23: a save_hit of a hit leaves exactly the rows that were there under
\* other ids, untouched, plus one row under the id of the hit that carries
\* the data of this save, whether or not the id was stored before; saving
\* the same hit once more changes nothing.
C23_SaveHitUpserts ==
    [][\A hit_data \in StoreHits :
        (enabled /\ db_hits' = save_hit(db_hits, enabled, current_session_id, hit_data)) =>
            /\ DOMAIN db_hits' = DOMAIN db_hits \cup {hit_data.id}
            /\ db_hits'[hit_data.id].data = JsonRoundTrip(hit_data)
            /\ db_hits'[hit_data.id].status_code = hit_data.status_code
            /\ db_hits'[hit_data.id].session_id = current_session_id
            /\ \A i \in DOMAIN db_hits : i # hit_data.id => db_hits'[i] = db_hits[i]
            /\ save_hit(db_hits', enabled, current_session_id, hit_data) = db_hits']_vars

\* C23 witness: hit 1 was saved pending and saved again completed, and the
\* one row under its id is the completed one.
C23_Witness ==
    /\ enabled
    /\ 1 \in DOMAIN db_hits
    /\ ~db_hits[1].data.pending
    /\ \E h \in StoreHits :
        /\ h.id = 1 /\ h.pending
        /\ <<"hit", db_hits[1].session_id, JsonRoundTrip(h)>> \in recorded

\* The log rows of one session, in table order.
LogsOf(table, session) == SelectSeq(table, LAMBDA row : row.session_id = session)

\* C24: a step that removes the row of a session removes that row only,
\* leaves no hit and no log of that session, and leaves every hit and the
\* logs of every other session as they were.
C24_DeleteSessionCascades ==
    [][\A s \in 1..session_count :
        (enabled /\ s \in db_sessions /\ s \notin db_sessions') =>
            /\ db_sessions' = db_sessions \ {s}
            /\ \A i \in DOMAIN db_hits' : db_hits'[i].session_id # s
            /\ LogsOf(db_logs', s) = << >>
            /\ \A i \in DOMAIN db_hits :
                db_hits[i].session_id # s =>
                    i \in DOMAIN db_hits' /\ db_hits'[i] = db_hits[i]
            /\ \A i \in DOMAIN db_hits' : i \in DOMAIN db_hits
            /\ \A other \in 1..session_count :
                other # s => LogsOf(db_logs', other) = LogsOf(db_logs, other)]_vars

\* C24 witness: session 2 was deleted while it held a hit and session 1 held
\* another one; the hit of session 2 is gone and the hit of session 1 is there.
C24_Witness ==
    /\ enabled
    /\ 2 \notin db_sessions
    /\ 1 \in db_sessions
    /\ session_count = 2
    /\ \E h \in StoreHits :
        /\ <<"hit", 2, JsonRoundTrip(h)>> \in recorded
        /\ h.id \notin DOMAIN db_hits
    /\ \E i \in DOMAIN db_hits : db_hits[i].session_id = 1

\* C25: with persistence disabled no store call changes a session, hit or
\* log row or the current session id, and get_recent_hits, get_recent_logs
\* and get_sessions return nothing, whatever the database file holds.
C25_DisabledStoreIsNoOp ==
    [][~enabled =>
        /\ UNCHANGED <<db_sessions, db_hits, db_logs, current_session_id,
                       session_count, enabled>>
        /\ get_sessions(db_sessions', enabled') = << >>
        /\ \A session_id \in SessionArgs :
            /\ get_recent_hits(db_hits', enabled', current_session_id',
                               HitsLimit, session_id) = << >>
            /\ get_recent_logs(db_logs', enabled', current_session_id',
                               LogsLimit, session_id) = << >>]_vars

\* C25 witness: persistence is disabled, the database file holds rows of an
\* earlier run, and store calls have been made.
C25_Witness ==
    /\ ~enabled
    /\ clock = MaxStoreOps
    /\ db_sessions # {}
    /\ db_hits # << >>
    /\ db_logs # << >>

\* --------------------------------------------------------------- SpecSchema
\* A table of the database file: absent, of the layout without the
\* session_id column, or of the current layout.
TableKinds == {"absent", "legacy", "current"}

\* What the database file may hold when a run starts.
DiskSchemas ==
    { [ sessions |-> s, endpoint_hits |-> h, server_logs |-> l, migrated |-> FALSE ] :
        s \in {"absent", "current"}, h \in TableKinds, l \in TableKinds }

\* CREATE TABLE IF NOT EXISTS
create_if_not_exists(kind) == IF kind = "absent" THEN "current" ELSE kind

\* A statement that names the session_id column of a table runs without
\* sqlite3.OperationalError only on a table of the current layout.
executes(kind) == kind = "current"

\* TUIPersistence._init_db: the three CREATE TABLE IF NOT EXISTS, then the
\* migration check, whose except branch drops endpoint_hits and server_logs
\* and creates nothing.
init_db(on, disk) ==
    IF ~on THEN disk
    ELSE LET created == [ sessions |-> create_if_not_exists(disk.sessions),
                          endpoint_hits |-> create_if_not_exists(disk.endpoint_hits),
                          server_logs |-> create_if_not_exists(disk.server_logs),
                          migrated |-> FALSE ]
         IN IF executes(created.endpoint_hits)
            THEN created
            ELSE [created EXCEPT !.endpoint_hits = "absent",
                                 !.server_logs = "absent",
                                 !.migrated = TRUE]

\* TUIPersistence() on a database file of any layout: _init_db, then
\* start_new_session, whose INSERT finds the sessions table.
SchemaInit ==
    /\ ProgramIdle
    /\ ConfigIdle
    /\ TickIdle
    /\ ServiceIdle
    /\ ContextIdle
    /\ CaptureIdle
    /\ SupIdle
    /\ \E disk \in DiskSchemas : schema = init_db(enabled, disk)

SchemaFrame == UNCHANGED <<req, queue, sent, dispatcherVars, enabled, statsVars, configVars, tickVars, serviceVars, contextVars, capture, sup>>

\* TUIPersistence.save_hit(hit_data): the INSERT raises on a missing or
\* legacy table and the except clause swallows the error.
SchemaSaveHit ==
    /\ clock < MaxStoreOps
    /\ clock' = clock + 1
    /\ \E hit_data \in StoreHits :
        /\ db_hits' = save_hit(db_hits, enabled /\ executes(schema.endpoint_hits),
                               current_session_id, hit_data)
        /\ recorded' = recorded \cup {<<"hit", current_session_id,
                                         JsonRoundTrip(hit_data)>>}
    /\ UNCHANGED <<db_sessions, db_logs, current_session_id, session_count, schema>>
    /\ SchemaFrame

\* TUIPersistence.save_log(level, message, timestamp), likewise.
SchemaSaveLog ==
    /\ clock < MaxStoreOps
    /\ clock' = clock + 1
    /\ \E message \in {"started", "stopped"} :
        /\ db_logs' = save_log(db_logs, enabled /\ executes(schema.server_logs),
                               current_session_id, "INFO", message, clock + 1)
        /\ recorded' = recorded \cup {<<"log", current_session_id,
                            LogEntry([level |-> "INFO", message |-> message,
                                      timestamp |-> clock + 1])>>}
    /\ UNCHANGED <<db_sessions, db_hits, current_session_id, session_count, schema>>
    /\ SchemaFrame

\* The monitor is started again on the same file: TUIPersistence() of the
\* next run.
NextRun ==
    /\ clock < MaxStoreOps
    /\ session_count < 1 + MaxSessions
    /\ clock' = clock + 1
    /\ schema' = init_db(enabled, schema)
    /\ session_count' = session_count + 1
    /\ current_session_id' = session_count + 1
    /\ db_sessions' = db_sessions \cup {session_count + 1}
    /\ UNCHANGED <<db_hits, db_logs, recorded>>
    /\ SchemaFrame

SchemaNext ==
    \/ SchemaSaveHit
    \/ SchemaSaveLog
    \/ NextRun

SpecSchema == SchemaInit /\ [][SchemaNext]_vars

\* The ids of the hits get_recent_hits returns for the live session.
QueriedHitIds ==
    LET hits == get_recent_hits(db_hits, enabled /\ executes(schema.endpoint_hits),
                                current_session_id, HitsLimit, None)
    IN {hits[i].id : i \in 1..Len(hits)}

\* The log entries get_recent_logs returns for the live session.
QueriedLogs ==
    LET logs == get_recent_logs(db_logs, enabled /\ executes(schema.server_logs),
                                current_session_id, LogsLimit, None)
    IN {logs[i] : i \in 1..Len(logs)}

\* C26: in a run whose initialisation found the session_id column missing,
\* every hit and every log saved so far in the run is returned by the
\* queries for the live session.
C26_SchemaDriftRecreates ==
    schema.migrated =>
        \A r \in recorded :
            r[2] = current_session_id =>
                /\ r[1] = "hit" => r[3].id \in QueriedHitIds
                /\ r[1] = "log" => r[3] \in QueriedLogs

\* The limits a caller may pass to the queries.
QueryLimits == 1..MaxStoreOps

\* The smaller of two numbers.
Min(a, b) == IF a < b THEN a ELSE b

\* C27: for every session and limit, get_recent_hits returns the
\* min(limit, n) hits of the session with the latest timestamps, newest
\* first, and get_recent_logs returns the min(limit, n) log lines of the
\* session with the latest timestamps, oldest first.
C27_RecentRowsWithinLimit ==
    \A session_id \in SessionArgs, limit \in QueryLimits :
        LET target == TargetSession(session_id)
            hits == get_recent_hits(db_hits, enabled, current_session_id, limit, session_id)
            logs == get_recent_logs(db_logs, enabled, current_session_id, limit, session_id)
            hit_rows == {i \in DOMAIN db_hits : db_hits[i].session_id = target}
            log_rows == LogsOf(db_logs, target)
        IN enabled =>
            /\ Len(hits) = Min(limit, Cardinality(hit_rows))
            /\ \A i \in 1..Len(hits) : hits[i].id \in hit_rows
            /\ \A i \in 1..(Len(hits) - 1) :
                    db_hits[hits[i].id].timestamp >= db_hits[hits[i + 1].id].timestamp
            /\ \A i \in 1..Len(hits), j \in hit_rows :
                    (\A k \in 1..Len(hits) : hits[k].id # j) =>
                        db_hits[j].timestamp <= db_hits[hits[i].id].timestamp
            /\ Len(logs) = Min(limit, Len(log_rows))
            /\ \A i \in 1..Len(logs) :
                    \E j \in 1..Len(log_rows) : logs[i] = LogEntry(log_rows[j])
            /\ \A i \in 1..(Len(logs) - 1) : logs[i].timestamp <= logs[i + 1].timestamp
            /\ \A i \in 1..Len(logs), j \in 1..Len(log_rows) :
                    (\A k \in 1..Len(logs) : logs[k] # LogEntry(log_rows[j])) =>
                        log_rows[j].timestamp <= logs[i].timestamp

\* --------------------------------------------------------------- SpecRunner
\* The supervisor (TUIRunner.run on the main thread, with the SIGTERM handler
\* running on top of it), its subprocess, the pipe that carries the
\* subprocess's stdout and stderr, and the reader thread. The subprocess is
\* the only writer of the pipe.

\* The text of the k-th line the subprocess writes, when it is not blank.
LineText(k) == IF k = 1 THEN "line 1" ELSE IF k = 2 THEN "line 2" ELSE "line 3+"

\* line.decode("utf-8", errors="replace").strip()
decoded_line(line) == IF line = " " THEN "" ELSE line

\* The event _monitor_process_output puts for a line.
RawLog(message) ==
    [ type |-> "log",
      data |-> [level |-> "INFO", message |-> message, type |-> "RAW"] ]

\* A variant of _cleanup that releases the IPC endpoint before it deals with
\* the subprocess.
cleanup_release_first(pc, state) ==
    CASE pc = "stop" -> "shutdown"
      [] pc = "shutdown" -> "terminate"
      [] pc = "terminate" -> IF state = "none" THEN "done" ELSE "wait"
      [] pc = "wait" -> IF state = "running" THEN "kill" ELSE "done"
      [] pc = "kill" -> "done"

\* A variant of _cleanup that sets the stop event and releases the IPC
\* endpoint, leaving the subprocess alone.
cleanup_stop_only(pc, state) ==
    CASE pc = "stop" -> "shutdown"
      [] pc = "shutdown" -> "done"
      [] pc = "terminate" -> "done"
      [] pc = "wait" -> "done"
      [] pc = "kill" -> "done"

\* TUIRunner._cleanup, the statement that follows statement pc when the
\* subprocess is in the given state: stop_event.set(); if api_process:
\* terminate(), wait(timeout=1), on TimeoutExpired kill(); if manager:
\* shutdown().
cleanup(pc, state) ==
    CASE pc = "stop" -> "terminate"
      [] pc = "terminate" -> IF state = "none" THEN "shutdown" ELSE "wait"
      [] pc = "wait" -> IF state = "running" THEN "kill" ELSE "shutdown"
      [] pc = "kill" -> "shutdown"
      [] pc = "shutdown" -> "done"

\* What statement pc of _cleanup does to the supervisor.
cleanup_effect(pc, s) ==
    CASE pc = "stop" -> [s EXCEPT !.stop_event = TRUE]
      [] pc = "terminate" ->
            IF s.api_process.state = "none" THEN s
            ELSE [s EXCEPT !.api_process.terminated = TRUE]
      [] pc = "wait" -> [s EXCEPT !.api_process.waited = TRUE]
      [] pc = "kill" ->
            IF s.api_process.state = "running"
            THEN [s EXCEPT !.api_process.state = "killed"]
            ELSE s
      [] pc = "shutdown" ->
            IF s.manager = "up" THEN [s EXCEPT !.manager = "down"] ELSE s

\* The sequence without its last element.
Front(seq) == SubSeq(seq, 1, Len(seq) - 1)

\* TUIRunner() with the configuration's enable_runtime_logs.
RunnerInit ==
    /\ ProgramIdle
    /\ ConfigIdle
    /\ TickIdle
    /\ ServiceIdle
    /\ ContextIdle
    /\ CaptureIdle
    /\ SchemaIdle
    /\ \E b \in BOOLEAN : sup = [NewRunner EXCEPT !.enable_runtime_logs = b]

RunnerFrame == UNCHANGED <<producerVars, sent, dispatcherVars, storeVars, statsVars, configVars, tickVars, serviceVars, contextVars, capture, schema>>

\* run(), one statement at a time, while no handler runs on top of it:
\* _setup_cleanup, start_manager_server, _start_api_process, the start of
\* the reader thread, tui.run() until the operator quits, the finally
\* clause, and the atexit hook when the interpreter exits.
MainStep ==
    /\ sup.frames = << >>
    /\ sup.main \in {"setup", "manager", "spawn", "thread", "tui", "finally", "atexit"}
    /\ sup' =
        CASE sup.main = "setup" -> [sup EXCEPT !.main = "manager", !.handlers = TRUE]
          [] sup.main = "manager" -> [sup EXCEPT !.main = "spawn", !.manager = "up"]
          [] sup.main = "spawn" ->
                [sup EXCEPT !.main = "thread", !.api_process.state = "running"]
          [] sup.main = "thread" ->
                [sup EXCEPT !.main = "tui",
                            !.reader.pc = IF sup.enable_runtime_logs
                                          THEN "check" ELSE "none"]
          [] sup.main = "tui" -> [sup EXCEPT !.main = "finally"]
          [] sup.main = "finally" ->
                [sup EXCEPT !.main = "atexit", !.frames = <<"stop">>]
          [] sup.main = "atexit" ->
                [sup EXCEPT !.main = "exited", !.frames = <<"stop">>]
    /\ UNCHANGED queue
    /\ RunnerFrame

\* SIGTERM arrives: the handler installed by _setup_cleanup calls _cleanup on
\* top of whatever the main thread was doing.
Sigterm ==
    /\ sup.handlers
    /\ sup.main # "exited"
    /\ sup.signals < MaxSignals
    /\ sup' = [sup EXCEPT !.signals = @ + 1, !.frames = Append(@, "stop")]
    /\ UNCHANGED queue
    /\ RunnerFrame

\* The innermost running _cleanup executes its next statement; after the
\* last one it returns to what it interrupted.
CleanupStep ==
    /\ sup.frames # << >>
    /\ LET pc == sup.frames[Len(sup.frames)]
           after == cleanup(pc, sup.api_process.state)
           done == cleanup_effect(pc, sup)
       IN sup' = [done EXCEPT !.frames =
                    IF after = "done" THEN Front(sup.frames)
                    ELSE [sup.frames EXCEPT ![Len(sup.frames)] = after]]
    /\ UNCHANGED queue
    /\ RunnerFrame

\* The subprocess writes a line, blank or not, to its stdout or stderr.
SubprocessWrites ==
    /\ sup.api_process.state = "running"
    /\ Len(sup.written) < MaxLines
    /\ \E line \in {" ", LineText(Len(sup.written) + 1)} :
        sup' = [sup EXCEPT !.pipe = Append(@, line), !.written = Append(@, line)]
    /\ UNCHANGED queue
    /\ RunnerFrame

\* The subprocess exits: it is done, it crashed, or it obeyed SIGTERM.
SubprocessExits ==
    /\ sup.api_process.state = "running"
    /\ sup' = [sup EXCEPT !.api_process.state = "exited"]
    /\ UNCHANGED queue
    /\ RunnerFrame

\* _monitor_process_output, one statement at a time: the loop condition, the
\* blocking readline, the put.
ReaderStep ==
    /\ sup.reader.pc \in {"check", "read", "put"}
    /\ \/ /\ sup.reader.pc = "check"
          /\ sup' = [sup EXCEPT !.reader.pc =
                        IF ~sup.stop_event /\ sup.api_process.state = "running"
                        THEN "read" ELSE "done"]
          /\ UNCHANGED queue
       \/ /\ sup.reader.pc = "read"
          /\ sup.pipe # << >>
          /\ sup' = [sup EXCEPT !.pipe = Tail(@),
                                !.reader = IF decoded_line(Head(sup.pipe)) = ""
                                           THEN [pc |-> "check", line |-> ""]
                                           ELSE [pc |-> "put",
                                                 line |-> decoded_line(Head(sup.pipe))]]
          /\ UNCHANGED queue
       \/ /\ sup.reader.pc = "read"
          /\ sup.pipe = << >>
          /\ sup.api_process.state # "running"
          /\ sup' = [sup EXCEPT !.reader.pc = "done"]
          /\ UNCHANGED queue
       \/ /\ sup.reader.pc = "put"
          /\ IF sup.manager = "up"
             THEN /\ queue' = Append(queue, RawLog(sup.reader.line))
                  /\ sup' = [sup EXCEPT !.reader = [pc |-> "check", line |-> ""]]
             ELSE /\ UNCHANGED queue
                  /\ sup' = [sup EXCEPT !.reader = [pc |-> "done", line |-> ""]]
    /\ RunnerFrame

RunnerNext ==
    \/ MainStep
    \/ Sigterm
    \/ CleanupStep
    \/ SubprocessWrites
    \/ SubprocessExits
    \/ ReaderStep

SpecRunner == RunnerInit /\ [][RunnerNext]_vars

\* The threads are scheduled: a reader that can run does run, and so does a
\* _cleanup that was entered.
SpecRunnerLive ==
    /\ SpecRunner
    /\ WF_vars(ReaderStep)
    /\ WF_vars(CleanupStep)

\* C28: the step that releases the IPC endpoint is taken only when the
\* subprocess was never started, has exited or has been killed, and, if there
\* is a subprocess, after terminate and the bounded wait; the wait comes
\* after terminate and the kill after the wait. It holds for the _cleanup of
\* the finally clause, of the SIGTERM handler and of the atexit hook alike.
C28_ReleaseComesLast ==
    [][/\ (sup.manager = "up" /\ sup'.manager = "down") =>
            /\ sup'.api_process.state # "running"
            /\ sup'.api_process.state # "none" =>
                    sup'.api_process.terminated /\ sup'.api_process.waited
       /\ (~sup.api_process.waited /\ sup'.api_process.waited) =>
            sup.api_process.terminated
       /\ (sup.api_process.state # "killed" /\ sup'.api_process.state = "killed") =>
            sup.api_process.terminated /\ sup.api_process.waited]_vars

\* C28 witness: a SIGTERM was handled, the subprocess outlived the wait and
\* was killed, and the IPC endpoint has been released.
C28_Witness ==
    /\ sup.signals > 0
    /\ sup.api_process.state = "killed"
    /\ sup.manager = "down"

\* The lines of a sequence that are not blank, decoded.
NonBlank(lines) ==
    LET kept == SelectSeq(lines, LAMBDA line : decoded_line(line) # "")
    IN [i \in 1..Len(kept) |-> decoded_line(kept[i])]

\* C29: when the subprocess has exited by itself and the reader has finished,
\* with no shutdown requested and the IPC endpoint up, the queue holds one
\* RAW log event for every non-blank line written, in the order written.
C29_EveryLineForwarded ==
    (/\ sup.reader.pc = "done"
     /\ sup.api_process.state = "exited"
     /\ ~sup.stop_event
     /\ sup.manager = "up") =>
        queue = [i \in 1..Len(NonBlank(sup.written)) |-> RawLog(NonBlank(sup.written)[i])]

\* The reader thread is running.
ReaderRuns == sup.reader.pc \in {"check", "read", "put"}

\* C30: once the stop event is set or the subprocess has exited or been
\* killed, the reader thread comes to its end.
C30_ReaderTerminates ==
    (sup.stop_event \/ sup.api_process.state \in {"exited", "killed"}) ~> ~ReaderRuns

\* C30 witness: shutdown was requested while the subprocess was alive, the
\* subprocess was killed, and the reader has returned.
C30_Witness ==
    /\ sup.stop_event
    /\ sup.api_process.state = "killed"
    /\ sup.reader.pc = "done"
    /\ sup.written # << >>

\* ------------------------------------------------ claims on the dispatcher
\* C31: with persistence enabled, a step of the dispatcher that changes what
\* is displayed (a viewer's hits, the exception stream or the server logs)
\* also writes to the store of the live session.
C31_RenderedEventsArePersisted ==
    [][(/\ enabled
        /\ \/ endpoint_viewers' # endpoint_viewers
           \/ exceptions' # exceptions
           \/ server_logs' # server_logs) =>
            \/ db_hits' # db_hits
            \/ db_logs' # db_logs]_vars

\* ---------------------------------------------------------------- SpecMount
\* The monitor's process from FastAPITUI() to the end of on_mount: cfg is the
\* value get_config() hands to everyone in the process, shown with its
\* feature toggles and UI settings; current_session_id = -1 stands for "no
\* TUIPersistence constructed yet".
MountConfigs ==
    { [ enable_exceptions |-> TRUE, enable_request_logging |-> logging,
        enable_response_body |-> TRUE, enable_runtime_logs |-> runtime,
        enable_stats |-> collect, enable_persistence |-> persist,
        show_sidebar |-> sidebar, show_stats_panel |-> panel ] :
      logging \in BOOLEAN, runtime \in BOOLEAN, collect \in BOOLEAN,
      persist \in BOOLEAN, sidebar \in BOOLEAN, panel \in BOOLEAN }

\* FastAPITUI.on_mount, what it does to self.config, the object get_config()
\* returned: with show_stats_panel off it assigns enable_stats = False.
on_mount(config) ==
    IF ~config.show_stats_panel THEN [config EXCEPT !.enable_stats = FALSE]
    ELSE config

MountInit ==
    /\ req = << >>
    /\ clock = 0
    /\ queue = << >>
    /\ sent = << >>
    /\ endpoint_viewers = << >>
    /\ endpoint_stats = << >>
    /\ exceptions = << >>
    /\ enabled = FALSE
    /\ db_sessions = {}
    /\ db_hits = << >>
    /\ db_logs = << >>
    /\ current_session_id = -1
    /\ session_count = 0
    /\ recorded = {}
    /\ stats = NewStats
    /\ fed = << >>
    /\ TickIdle
    /\ ServiceIdle
    /\ LaterIdle
    /\ cfg \in MountConfigs
    /\ payload = None
    /\ restored = None

\* on_mount: the UI settings are applied, load_history asks get_persistence()
\* for the store, which is constructed from the configuration and starts its
\* session (a new session has no history to load), and the timers are set.
OnMount ==
    /\ current_session_id = -1
    /\ cfg' = on_mount(cfg)
    /\ enabled' = cfg.enable_persistence
    /\ IF cfg.enable_persistence
       THEN /\ session_count' = 1
            /\ current_session_id' = 1
            /\ db_sessions' = {1}
       ELSE /\ session_count' = 0
            /\ current_session_id' = 0
            /\ db_sessions' = db_sessions
    /\ UNCHANGED <<producerVars, channelVars, dispatcherVars, db_hits, db_logs,
                   recorded, statsVars, payload, restored, tickVars,
                   serviceVars, laterVars>>

MountNext == OnMount

SpecMount == MountInit /\ [][MountNext]_vars

\* C32: no step of the monitor changes a field of the configuration value.
C32_ConfigIsReadOnly == [][cfg' = cfg]_vars

\* The hit at a place of the viewers.
HitAt(viewers, a) == viewers[a[1]].hits[a[2]]

C36_PendingAndCompletedShareKey ==
    \A id \in RequestIds :
        \A i, j \in 1..Len(RequestEvents(sent, id)) :
            RequestEvents(sent, id)[i].data.endpoint = RequestEvents(sent, id)[j].data.endpoint

\* ------------------------------------------------ claims on the statistics
\* The sum of a sequence of numbers.
RECURSIVE SumOf(_)
SumOf(ds) == IF ds = << >> THEN 0 ELSE Head(ds) + SumOf(Tail(ds))

\* C34: after any sequence of updates that each record a duration,
\* avg_duration_ms is the arithmetic mean of the durations recorded.
C34_AverageIsMean ==
    fed # << >> =>
        stats.avg_duration_ms.num * Len(fed) = SumOf(fed) * stats.avg_duration_ms.den

\* --------------------------------------------------------------- SpecViewer
\* One RequestViewer that is handed a long stream of hits: every insertion
\* brings the next id; between insertions the newest and the oldest hit of
\* the list may be handed in again, completed. clock counts the ids issued.
ViewerEndpoint == "/users"

\* The hit list of the viewer under test.
ViewerHits(viewers) == viewers[ViewerIndex(viewers, ViewerEndpoint)].hits

\* Whether hits may be updated after k insertions: at the start of the stream
\* and around the moment the list is full.
UpdatesAllowed(k) == k <= ViewerFree \/ k >= MaxHits - 1

ViewerInit ==
    /\ req = << >>
    /\ clock = 0
    /\ queue = << >>
    /\ sent = << >>
    /\ endpoint_viewers = add_window(<< >>, ViewerEndpoint)
    /\ endpoint_stats = << >>
    /\ exceptions = << >>
    /\ StoreInit
    /\ stats = NewStats
    /\ fed = << >>
    /\ SideIdle

ViewerFrame == UNCHANGED <<req, channelVars, endpoint_stats, exceptions, storeVars, statsVars, sideVars>>

\* add_hit with a hit whose id the list does not hold.
InsertHit ==
    /\ clock < MaxHits + ViewerExtra
    /\ clock' = clock + 1
    /\ endpoint_viewers' = ViewerAddHit(endpoint_viewers, ViewerEndpoint,
                                        [id |-> clock + 1, pending |-> TRUE])
    /\ ViewerFrame

\* add_hit with the completed form of a hit the list holds.
UpdateHit ==
    /\ UpdatesAllowed(clock)
    /\ ViewerHits(endpoint_viewers) # << >>
    /\ \E at \in {1, Len(ViewerHits(endpoint_viewers))} :
        endpoint_viewers' = ViewerAddHit(endpoint_viewers, ViewerEndpoint,
                                [id |-> ViewerHits(endpoint_viewers)[at].id,
                                 pending |-> FALSE])
    /\ UNCHANGED clock
    /\ ViewerFrame

ViewerNext ==
    \/ InsertHit
    \/ UpdateHit

SpecViewer == ViewerInit /\ [][ViewerNext]_vars

\* The ids of a hit list, in list order.
IdsOf(hits) == [i \in 1..Len(hits) |-> hits[i].id]

\* C35: the list never holds more than 100 hits, its ids are pairwise
\* distinct and the later-issued id stands before the earlier one; a step
\* drops a hit only when the list is full and a new id is inserted, and then
\* it drops the last (oldest) one; a step that hands in an id already in the
\* list leaves the ids and their order as they were.
C35_LiveListCapacity ==
    [][LET old == ViewerHits(endpoint_viewers)
           new == ViewerHits(endpoint_viewers')
           old_ids == {old[i].id : i \in 1..Len(old)}
           new_ids == {new[i].id : i \in 1..Len(new)}
       IN /\ Len(new) <= MaxHits
          /\ Cardinality(new_ids) = Len(new)
          /\ \A i \in 1..(Len(new) - 1) : new[i].id > new[i + 1].id
          /\ \A i \in 1..Len(old) :
                old[i].id \notin new_ids =>
                    /\ Len(old) = MaxHits
                    /\ i = Len(old)
                    /\ new[1].id \notin old_ids
          /\ new_ids \subseteq old_ids => IdsOf(new) = IdsOf(old)]_vars

\* C35 witness: more ids than the list holds were inserted, the list is full,
\* the oldest ids are gone, and a hit of the list was updated in place.
C35_Witness ==
    /\ clock = MaxHits + ViewerExtra
    /\ Len(ViewerHits(endpoint_viewers)) = MaxHits
    /\ ViewerHits(endpoint_viewers)[1].id = clock
    /\ ViewerHits(endpoint_viewers)[MaxHits].id = ViewerExtra + 1
    /\ ~ViewerHits(endpoint_viewers)[MaxHits].pending

\* ---------------------------------------------- claims on the event order
\* The events on the queue that carry request id t, in queue order.
EventsOf(t) == SelectSeq(queue, LAMBDA e : EventRequestId(e) = t)

C38_ClassifiedAtMostOnce ==
    \A endpoint \in DOMAIN endpoint_stats :
        endpoint_stats[endpoint].success_count
            + endpoint_stats[endpoint].error_count
                <= endpoint_stats[endpoint].total_hits

\* ------------------------------------------- claims on the stored hit rows
\* The stored row of id agrees with the hit on the fields the detail view
\* shows, and both are completed.
RowAgrees(id, hit) ==
    /\ id \in DOMAIN db_hits
    /\ ~hit.pending
    /\ ~db_hits[id].data.pending
    /\ db_hits[id].data.status_code = hit.status_code
    /\ db_hits[id].data.duration_ms = hit.duration_ms
    /\ db_hits[id].data.runtime_logs = hit.runtime_logs
    /\ db_hits[id].data.exceptions = hit.exceptions

\* C39: with the store enabled, once every event of a finished request has
\* been handled, the row stored for its id agrees with every in-memory hit
\* of that id on status_code, duration_ms, runtime_logs and exceptions, and
\* neither is pending.
C39_RowAgreesWithHit ==
    \A r \in RequestIds :
        (enabled /\ req[r].pc = "done" /\ queue = << >>) =>
            /\ HitsWithId(endpoint_viewers, r) # {}
            /\ \A at \in HitsWithId(endpoint_viewers, r) :
                    RowAgrees(r, HitAt(endpoint_viewers, at))

\* C40: every row of endpoint_hits and of server_logs names a session that
\* has a row in sessions.
C40_RowsReferenceLiveSessions ==
    /\ \A id \in DOMAIN db_hits : db_hits[id].session_id \in db_sessions
    /\ \A i \in 1..Len(db_logs) : db_logs[i].session_id \in db_sessions

====
